---- MODULE Spec2Model ----
(***************************************************************************)
(* A model of the LocalBrain desktop core: the policy engine               *)
(* (enhanced_security.rs), the tool registry and its capabilities          *)
(* (tool_executor.rs), the realtime session protocol bridge                *)
(* (realtime_voice.rs) and the voice pipeline (voice_system.rs).           *)
(*                                                                         *)
(* Text (paths, commands) is a sequence of one-character strings, so that  *)
(* starts_with, contains, the regular expressions and the splitting of the *)
(* source are computed character by character as the source computes them. *)
(* "NUL" stands for a control character, "BQ" for the backquote.          *)
(***************************************************************************)
EXTENDS Integers, Sequences, FiniteSets, TLC

(***************************************************************************)
(* Text helpers: str::starts_with, str::contains, split.                   *)
(***************************************************************************)
\* The absent value of an optional text (no text holds a character "null").
Null == <<"null">>

StartsWith(s, p) ==
    /\ Len(p) <= Len(s)
    /\ \A i \in 1..Len(p) : s[i] = p[i]

Contains(s, sub) ==
    \E i \in 0..(Len(s) - Len(sub)) : \A j \in 1..Len(sub) : s[i + j] = sub[j]

DropFirst(s, n) == IF n >= Len(s) THEN <<>> ELSE SubSeq(s, n + 1, Len(s))

\* The segments of s between the characters of delims (some may be empty).
RECURSIVE SplitOn(_, _)
SplitOn(s, delims) ==
    IF s = <<>> THEN << <<>> >>
    ELSE LET rest == SplitOn(Tail(s), delims) IN
         IF Head(s) \in delims THEN << <<>> >> \o rest
         ELSE << <<Head(s)>> \o Head(rest) >> \o Tail(rest)

NonEmptySeg(x) == x # <<>>

\* str::split_whitespace
split_whitespace(s) == SelectSeq(SplitOn(s, {" "}), NonEmptySeg)

RECURSIVE JoinWith(_, _)
JoinWith(parts, sep) ==
    IF parts = <<>> THEN <<>>
    ELSE IF Len(parts) = 1 THEN parts[1]
    ELSE parts[1] \o sep \o JoinWith(Tail(parts), sep)

LastIndexOf(s, c) ==
    LET I == {i \in 1..Len(s) : s[i] = c} IN
    IF I = {} THEN 0 ELSE CHOOSE i \in I : \A j \in I : j <= i

(***************************************************************************)
(* std::path: components, Path::starts_with, file_name, extension, parent, *)
(* PathBuf::push / join.  A path is kept as its text.                      *)
(***************************************************************************)
IsAbsolute(p) == p # <<>> /\ p[1] = "/"

NormalSeg(x) == x # <<>> /\ x # <<".">>

\* Path::components: empty segments and "." segments are dropped.
Components(p) == SelectSeq(SplitOn(p, {"/"}), NormalSeg)

\* Path::starts_with compares whole components, never parts of a name.
PathStartsWith(p, base) ==
    /\ IsAbsolute(p) = IsAbsolute(base)
    /\ Len(Components(base)) <= Len(Components(p))
    /\ \A i \in 1..Len(Components(base)) : Components(p)[i] = Components(base)[i]

\* Path::file_name: the last component, none when it is "..".
file_name(p) ==
    LET c == Components(p) IN
    IF c = <<>> \/ c[Len(c)] = <<".", ".">> THEN Null ELSE c[Len(c)]

\* Path::extension: what follows the last "." of the file name, if the name
\* does not begin with that ".".
extension(p) ==
    LET f == file_name(p) IN
    IF f = Null THEN Null
    ELSE LET k == LastIndexOf(f, ".") IN
         IF k <= 1 THEN Null ELSE DropFirst(f, k)

\* Path::parent: the path without its last component.
parent(p) ==
    LET c == Components(p) IN
    IF c = <<>> THEN Null
    ELSE IF Len(c) = 1 THEN (IF IsAbsolute(p) THEN <<"/">> ELSE <<>>)
    ELSE (IF IsAbsolute(p) THEN <<"/">> ELSE <<>>) \o JoinWith(SubSeq(c, 1, Len(c) - 1), <<"/">>)

\* PathBuf::push / Path::join: an absolute argument replaces the path.
PathJoin(base, p) ==
    IF IsAbsolute(p) THEN p
    ELSE IF base = <<>> THEN p
    ELSE IF base[Len(base)] = "/" THEN base \o p
    ELSE base \o <<"/">> \o p

(***************************************************************************)
(* The environment of the policy engine: the home directory and the        *)
(* directories derived from it (the dirs crate), the working directory,    *)
(* and a small file system with one symbolic link.                         *)
(***************************************************************************)
home_dir == <<"/", "h", "o", "m", "e", "/", "u">>
desktop_dir == <<"/", "h", "o", "m", "e", "/", "u", "/", "D", "e", "s", "k", "t", "o", "p">>
download_dir == <<"/", "h", "o", "m", "e", "/", "u", "/", "D", "o", "w", "n", "l", "o", "a", "d", "s">>
document_dir == <<"/", "h", "o", "m", "e", "/", "u", "/", "D", "o", "c", "u", "m", "e", "n", "t", "s">>
current_dir == <<"/", "t", "m", "p">>

\* Directories that exist (canonical text).
FsDirs ==
    { <<"/">>, <<"/", "t", "m", "p">>, <<"/", "v", "a", "r">>, <<"/", "v", "a", "r", "/", "t", "m", "p">>, <<"/", "e", "t", "c">>, <<"/", "h", "o", "m", "e">>, <<"/", "h", "o", "m", "e", "/", "u">>,
      <<"/", "h", "o", "m", "e", "/", "u", "/", "D", "e", "s", "k", "t", "o", "p">>, <<"/", "h", "o", "m", "e", "/", "u", "/", "D", "o", "w", "n", "l", "o", "a", "d", "s">>, <<"/", "h", "o", "m", "e", "/", "u", "/", "D", "o", "c", "u", "m", "e", "n", "t", "s">>,
      <<"/", "t", "m", "p", "/", ".", "s", "s", "h">>, <<"/", "t", "m", "p", "x">> }

\* Symbolic links: /tmp/l -> /etc.
FsLinkFrom == <<"/", "t", "m", "p", "/", "l">>
FsLinkTo == <<"/", "e", "t", "c">>

\* Regular files that exist when the program starts.
FsInitFiles ==
    { <<"/", "t", "m", "p", "/", "a">>, <<"/", "e", "t", "c", "/", "p", "a", "s", "s", "w", "d">>, <<"/", "t", "m", "p", "/", ".", "s", "s", "h", "/", "k">>, <<"/", "t", "m", "p", "x", "/", "f">>,
      <<"/", "h", "o", "m", "e", "/", "u", "/", "D", "o", "c", "u", "m", "e", "n", "t", "s", "/", "d">> }

\* Resolution of the components rest from the resolved directory cur ("" is
\* the root), as the operating system and fs::canonicalize resolve a path:
\* ".." steps up physically, a symbolic link is followed, and a component
\* that does not exist fails.
RECURSIVE FsResolve(_, _, _)
FsResolve(files, cur, rest) ==
    IF rest = <<>> THEN [ok |-> TRUE, val |-> IF cur = <<>> THEN <<"/">> ELSE cur]
    ELSE IF Head(rest) = <<".", ".">>
         THEN FsResolve(files, IF cur = <<>> THEN <<>>
                               ELSE LET q == parent(cur) IN IF q = <<"/">> THEN <<>> ELSE q,
                        Tail(rest))
    ELSE LET nxt == cur \o <<"/">> \o Head(rest) IN
         IF nxt = FsLinkFrom THEN FsResolve(files, FsLinkTo, Tail(rest))
         ELSE IF nxt \in FsDirs THEN FsResolve(files, nxt, Tail(rest))
         ELSE IF nxt \in files /\ Tail(rest) = <<>> THEN [ok |-> TRUE, val |-> nxt]
         ELSE [ok |-> FALSE, val |-> Null]

\* fs::canonicalize of an absolute path.
canonicalize(files, p) == FsResolve(files, <<>>, Components(p))

IsDir(files, p) == canonicalize(files, p).ok /\ canonicalize(files, p).val \in FsDirs
IsFile(files, p) == canonicalize(files, p).ok /\ canonicalize(files, p).val \in files

(***************************************************************************)
(* Policy engine: enhanced_security.rs                                     *)
(***************************************************************************)
ControlChars == {"NUL"}

\* DANGEROUS_CHARS_REGEX  [\x00-\x1f\x7f-\x9f]
DANGEROUS_CHARS_REGEX(s) == \E i \in 1..Len(s) : s[i] \in ControlChars

IsSepChar(c) == c \in {"/", "\\"}

\* PATH_TRAVERSAL_REGEX  (\.\.[\\/])|([^/\\]\.\.)|(\.\.[^/\\])
PATH_TRAVERSAL_REGEX(s) ==
    \E i \in 1..(Len(s) - 1) :
        /\ s[i] = "." /\ s[i + 1] = "."
        /\ \/ (i + 2 <= Len(s) /\ IsSepChar(s[i + 2]))
           \/ (i > 1 /\ ~IsSepChar(s[i - 1]))
           \/ (i + 2 <= Len(s) /\ ~IsSepChar(s[i + 2]))

\* A variant of COMMAND_INJECTION_REGEX that matches nothing.
COMMAND_INJECTION_REGEX_none(s) == FALSE

\* COMMAND_INJECTION_REGEX: one of ; & | backquote $ < >
InjectionChars == {";", "&", "|", "BQ", "$", "<", ">"}
COMMAND_INJECTION_REGEX(s) == \E i \in 1..Len(s) : s[i] \in InjectionChars

\* initialize_defaults: allowed roots and blocked substrings.
allowed_roots == {home_dir, <<"/", "t", "m", "p">>, <<"/", "v", "a", "r", "/", "t", "m", "p">>}

blocked_paths ==
    { <<"/", ".", "s", "s", "h">>, <<"/", ".", "g", "n", "u", "p", "g">>, <<"/", ".", "a", "w", "s">>, <<"/", ".", "c", "o", "n", "f", "i", "g", "/", "g", "c", "l", "o", "u", "d">>,
      <<"/", "L", "i", "b", "r", "a", "r", "y", "/", "K", "e", "y", "c", "h", "a", "i", "n", "s">>, <<"/", ".", "l", "o", "c", "a", "l", "b", "r", "a", "i", "n", "_", "k", "e", "y">> }

Ok(v) == [ok |-> TRUE, val |-> v, err |-> "none"]
Err(e) == [ok |-> FALSE, val |-> Null, err |-> e]

\* normalize_path.  "~" alone makes &path[2..] index past the end of the
\* text: the slice panics.
normalize_path(files, path) ==
    LET home_case == StartsWith(path, <<"~">>)
        normalized ==
            IF home_case THEN PathJoin(home_dir, DropFirst(path, 2))
            ELSE IF StartsWith(path, <<"/">>) THEN path
            ELSE PathJoin(current_dir, path)
        canon == canonicalize(files, normalized)
    IN
    IF home_case /\ Len(path) < 2 THEN Err("panic: slice index out of range")
    ELSE IF ~home_case /\ ~StartsWith(path, <<"/">>)
            /\ ~\E root \in allowed_roots : PathStartsWith(current_dir, root)
         THEN Err("Relative paths not allowed from current directory")
    ELSE IF canon.ok THEN Ok(canon.val)
    ELSE IF parent(normalized) = Null THEN Err("Invalid path")
    ELSE IF canonicalize(files, parent(normalized)).ok THEN Ok(normalized)
    ELSE Err("Parent directory does not exist")

\* validate_path
validate_path(files, path) ==
    IF DANGEROUS_CHARS_REGEX(path) THEN Err("Path contains invalid characters")
    ELSE IF PATH_TRAVERSAL_REGEX(path) THEN Err("Path traversal detected")
    ELSE LET n == normalize_path(files, path) IN
         IF ~n.ok THEN n
         ELSE IF ~\E root \in allowed_roots : PathStartsWith(n.val, root)
              THEN Err("Path is outside allowed directories")
         ELSE IF \E blocked \in blocked_paths : Contains(n.val, blocked)
              THEN Err("Access to this path is blocked")
         ELSE Ok(n.val)

\* setup_command_whitelist: the policy of each whitelisted base command.
\* allowed_args is Some(list) or None: has_allowed_args tells which.
CommandPolicy(has_allowed, allowed, blocked, confirm, max_ms, env) ==
    [has_allowed_args |-> has_allowed, allowed_args |-> allowed, blocked_args |-> blocked,
     requires_confirmation |-> confirm, max_execution_time_ms |-> max_ms,
     allowed_env_vars |-> env]

WhitelistedCommands == { <<"l", "s">>, <<"c", "a", "t">>, <<"g", "r", "e", "p">>, <<"g", "i", "t">>, <<"p", "y", "t", "h", "o", "n", "3">>, <<"n", "o", "d", "e">> }

command_whitelist(base) ==
    IF base = <<"l", "s">> THEN CommandPolicy(FALSE, {}, {}, FALSE, 5000, {})
    ELSE IF base = <<"c", "a", "t">> THEN CommandPolicy(FALSE, {}, {}, FALSE, 10000, {})
    ELSE IF base = <<"g", "r", "e", "p">> THEN CommandPolicy(FALSE, {}, {}, FALSE, 30000, {})
    ELSE IF base = <<"g", "i", "t">>
         THEN CommandPolicy(TRUE, { <<"s", "t", "a", "t", "u", "s">>, <<"l", "o", "g">>, <<"d", "i", "f", "f">>, <<"b", "r", "a", "n", "c", "h">>, <<"s", "h", "o", "w">> },
                            { <<"p", "u", "s", "h">>, <<"c", "r", "e", "d", "e", "n", "t", "i", "a", "l">>, <<"c", "o", "n", "f", "i", "g">> }, FALSE, 15000, {})
    ELSE IF base = <<"p", "y", "t", "h", "o", "n", "3">>
         THEN CommandPolicy(FALSE, {}, { <<"-", "c">>, <<"-", "-", "c", "o", "m", "m", "a", "n", "d">> }, TRUE, 60000, { <<"P", "Y", "T", "H", "O", "N", "P", "A", "T", "H">> })
    ELSE CommandPolicy(FALSE, {}, { <<"-", "e">>, <<"-", "-", "e", "v", "a", "l">>, <<"-", "p">>, <<"-", "-", "p", "r", "i", "n", "t">> }, TRUE, 60000,
                       { <<"N", "O", "D", "E", "_", "E", "N", "V">> })

\* validate_command
validate_command(command, args) ==
    LET base_command == IF file_name(command) = Null THEN command ELSE file_name(command)
        policy == command_whitelist(base_command)
    IN
    IF COMMAND_INJECTION_REGEX(command) THEN Err("Command contains dangerous characters")
    ELSE IF base_command \notin WhitelistedCommands THEN Err("Command is not whitelisted")
    ELSE IF policy.has_allowed_args /\ args # <<>> /\ args[1] \notin policy.allowed_args
         THEN Err("Command with argument is not allowed")
    ELSE IF \E i \in 1..Len(args) :
                /\ \A j \in 1..(i - 1) : args[j] \notin policy.blocked_args
                                         /\ ~COMMAND_INJECTION_REGEX(args[j])
                /\ args[i] \in policy.blocked_args
         THEN Err("Argument is blocked for command")
    ELSE IF \E i \in 1..Len(args) : COMMAND_INJECTION_REGEX(args[i])
         THEN Err("Argument contains dangerous characters")
    ELSE Ok(Null)

\* impl Default for PathPermissions
DefaultPathPermissions ==
    [read |-> TRUE, write |-> FALSE, execute |-> FALSE, delete |-> FALSE, list |-> TRUE]

\* setup_path_permissions: the directories that have an entry, and the entry.
PermissionPaths == {desktop_dir, download_dir, document_dir}

path_permissions(dir) ==
    IF dir = document_dir
    THEN [read |-> TRUE, write |-> FALSE, execute |-> FALSE, delete |-> FALSE, list |-> TRUE]
    ELSE [read |-> TRUE, write |-> TRUE, execute |-> FALSE, delete |-> TRUE, list |-> TRUE]

FileOperation == {"Read", "Write", "Execute", "Delete", "List"}

PermissionGrants(permissions, operation) ==
    CASE operation = "Read" -> permissions.read
      [] operation = "Write" -> permissions.write
      [] operation = "Execute" -> permissions.execute
      [] operation = "Delete" -> permissions.delete
      [] operation = "List" -> permissions.list

blocked_extensions == { <<"s", "h">>, <<"b", "a", "s", "h">>, <<"z", "s", "h">>, <<"f", "i", "s", "h">>, <<"p", "s", "1">>, <<"b", "a", "t">>, <<"c", "m", "d">> }

\* A variant of protected_files that protects no file.
protected_files_none == {}

protected_files ==
    { <<".", "g", "i", "t", "i", "g", "n", "o", "r", "e">>, <<".", "e", "n", "v">>, <<"p", "a", "c", "k", "a", "g", "e", ".", "j", "s", "o", "n">>, <<"C", "a", "r", "g", "o", ".", "t", "o", "m", "l">>, <<"y", "a", "r", "n", ".", "l", "o", "c", "k">>,
      <<"p", "a", "c", "k", "a", "g", "e", "-", "l", "o", "c", "k", ".", "j", "s", "o", "n">>, <<"C", "a", "r", "g", "o", ".", "l", "o", "c", "k">> }

\* check_file_permission: an entry whose directory text is a prefix of the
\* path text denies what it does not grant; a path that matches no entry is
\* denied nothing by the entries.
check_file_permission(path, operation) ==
    IF \E perm_path \in PermissionPaths :
           /\ StartsWith(path, perm_path)
           /\ ~PermissionGrants(path_permissions(perm_path), operation)
    THEN Err("permission denied")
    ELSE IF operation = "Execute" /\ extension(path) # Null
            /\ extension(path) \in blocked_extensions
         THEN Err("Execution of these files is not allowed")
    ELSE IF operation \in {"Write", "Delete"} /\ file_name(path) # Null
            /\ file_name(path) \in protected_files
         THEN Err("Operation not allowed on protected file")
    ELSE Ok(Null)

(***************************************************************************)
(* Tool registry and capabilities: tool_executor.rs                        *)
(*                                                                         *)
(* A JSON argument object is a record of its members, Null where a member  *)
(* is absent or no string.  ToolResult.output is a text (<<>> is           *)
(* String::new()), ToolResult.error a message or "none".  The outcome of   *)
(* execute is Ok(ToolResult) or Err(message).                              *)
(***************************************************************************)
ToolOk(success, output, error) ==
    [kind |-> "Ok", success |-> success, output |-> output, error |-> error]

ToolErr(msg) == [kind |-> "Err", success |-> FALSE, output |-> <<>>, error |-> msg]

\* What one execution did besides returning: the files afterwards, the file
\* I/O it issued (operation and path handed to the operating system) and the
\* process it started.
Effect(out, files, io, proc) == [out |-> out, files |-> files, io |-> io, proc |-> proc]

NoIo == {}
NoProc == Null

\* FileSystemTool: "Check allowed roots" is a prefix test on the text.
FsRootCheck(roots, path) == \E root \in roots : StartsWith(path, root)

\* FileSystemTool::read_file
read_file(roots, args, files) ==
    IF args.path = Null THEN Effect(ToolErr("Missing 'path' parameter"), files, NoIo, NoProc)
    ELSE IF ~FsRootCheck(roots, args.path)
         THEN Effect(ToolOk(FALSE, <<>>, "Path not in allowed roots"), files, NoIo, NoProc)
    ELSE LET c == canonicalize(DOMAIN files, args.path)
             io == {[op |-> "read", path |-> args.path]}
         IN
         IF c.ok /\ c.val \in DOMAIN files
         THEN Effect(ToolOk(TRUE, <<files[c.val]>>, "none"), files, io, NoProc)
         ELSE Effect(ToolOk(FALSE, <<>>, "io error"), files, io, NoProc)

\* The file tokio::fs::write creates or truncates: the resolved path when it
\* exists, else the name under the resolved parent directory.
WriteTarget(files, path) ==
    LET c == canonicalize(files, path)
        q == IF parent(path) = Null THEN Err("none") ELSE canonicalize(files, parent(path))
    IN
    IF c.ok THEN (IF c.val \in files THEN Ok(c.val) ELSE Err("is a directory"))
    ELSE IF q.ok /\ q.val \in FsDirs /\ file_name(path) # Null
         THEN Ok((IF q.val = <<"/">> THEN <<>> ELSE q.val) \o <<"/">> \o file_name(path))
    ELSE Err("not found")

\* FileSystemTool::write_file
write_file(roots, args, files) ==
    IF args.path = Null THEN Effect(ToolErr("Missing 'path' parameter"), files, NoIo, NoProc)
    ELSE IF args.content = Null
         THEN Effect(ToolErr("Missing 'content' parameter"), files, NoIo, NoProc)
    ELSE IF ~FsRootCheck(roots, args.path)
         THEN Effect(ToolOk(FALSE, <<>>, "Path not in allowed roots"), files, NoIo, NoProc)
    ELSE LET t == WriteTarget(DOMAIN files, args.path)
             io == {[op |-> "write", path |-> args.path]}
         IN
         IF t.ok
         THEN Effect(ToolOk(TRUE, <<"File written: ">> \o args.path, "none"),
                     [f \in DOMAIN files \cup {t.val} |->
                         IF f = t.val THEN args.content ELSE files[f]],
                     io, NoProc)
         ELSE Effect(ToolOk(FALSE, <<>>, "io error"), files, io, NoProc)

\* FileSystemTool::list_directory: a failing read_dir leaves through `?`.
list_directory(roots, args, files) ==
    IF args.path = Null THEN Effect(ToolErr("Missing 'path' parameter"), files, NoIo, NoProc)
    ELSE IF ~FsRootCheck(roots, args.path)
         THEN Effect(ToolOk(FALSE, <<>>, "Path not in allowed roots"), files, NoIo, NoProc)
    ELSE LET io == {[op |-> "list", path |-> args.path]} IN
         IF IsDir(DOMAIN files, args.path)
         THEN Effect(ToolOk(TRUE, <<"entries of ">> \o canonicalize(DOMAIN files, args.path).val,
                            "none"), files, io, NoProc)
         ELSE Effect(ToolErr("io error"), files, io, NoProc)

\* impl Tool for FileSystemTool: execute
FileSystemTool_execute(roots, args, files) ==
    IF args.action = <<"r", "e", "a", "d">> THEN read_file(roots, args, files)
    ELSE IF args.action = <<"w", "r", "i", "t", "e">> THEN write_file(roots, args, files)
    ELSE IF args.action = <<"l", "i", "s", "t">> THEN list_directory(roots, args, files)
    ELSE Effect(ToolOk(FALSE, <<>>, "Invalid action"), files, NoIo, NoProc)

\* TerminalTool::is_command_allowed
safe_commands ==
    { <<"l", "s">>, <<"p", "w", "d">>, <<"e", "c", "h", "o">>, <<"c", "a", "t">>, <<"g", "r", "e", "p">>, <<"f", "i", "n", "d">>, <<"w", "h", "i", "c", "h">>, <<"g", "i", "t">>, <<"n", "p", "m">>,
      <<"n", "o", "d", "e">>, <<"p", "y", "t", "h", "o", "n">>, <<"p", "i", "p">>, <<"c", "a", "r", "g", "o">>, <<"d", "a", "t", "e">>, <<"w", "h", "o", "a", "m", "i">>, <<"d", "f">>, <<"d", "u">>, <<"p", "s">>,
      <<"t", "o", "p">> }

is_command_allowed(command) ==
    LET cmd_parts == split_whitespace(command) IN
    IF cmd_parts = <<>> THEN FALSE ELSE cmd_parts[1] \in safe_commands

\* What the started process does: it cannot be spawned, it exits with
\* status 0, it exits with another status, or it does not exit.
ProcOutcomes == {"spawn_error", "exit_ok", "exit_fail", "no_exit"}

\* impl Tool for TerminalTool: execute.  The process is `sh -c command`;
\* cmd.output().await completes when the process has exited, and while it
\* has not, execute has returned nothing (kind "pending").
TerminalTool_execute(args, files, outcome) ==
    IF args.command = Null
    THEN Effect(ToolErr("Missing 'command' parameter"), files, NoIo, NoProc)
    ELSE IF ~is_command_allowed(args.command)
         THEN Effect(ToolOk(FALSE, <<>>, "Command not allowed"), files, NoIo, NoProc)
    ELSE IF outcome = "spawn_error"
         THEN Effect(ToolOk(FALSE, <<>>, "spawn error"), files, NoIo, args.command)
    ELSE IF outcome = "exit_ok"
         THEN Effect(ToolOk(TRUE, <<"stdout", "stderr">>, "none"), files, NoIo, args.command)
    ELSE IF outcome = "exit_fail"
         THEN Effect(ToolOk(FALSE, <<"stdout", "stderr">>, "stderr"), files, NoIo, args.command)
    ELSE Effect([kind |-> "pending", success |-> FALSE, output |-> <<>>, error |-> "none"],
                files, NoIo, args.command)

\* impl Tool for MCPBridgeTool: execute
MCPBridgeTool_execute(servers, args, files) ==
    IF args.server = Null THEN Effect(ToolErr("Missing 'server' parameter"), files, NoIo, NoProc)
    ELSE IF args.tool = Null
         THEN Effect(ToolErr("Missing 'tool' parameter"), files, NoIo, NoProc)
    ELSE IF args.server \notin servers
         THEN Effect(ToolErr("MCP server not found"), files, NoIo, NoProc)
    ELSE Effect(ToolOk(FALSE, <<>>, "MCP bridge not fully implemented"), files, NoIo, NoProc)

\* The capabilities that can be registered: a capability has the name of its
\* kind (Tool::name), a FileSystemTool its allowed roots.
FileSystemToolA == [kind |-> "filesystem", roots |-> {<<"/", "t", "m", "p">>, home_dir}]
FileSystemToolB == [kind |-> "filesystem", roots |-> {<<"/", "t", "m", "p">>}]
TerminalToolI == [kind |-> "terminal", roots |-> {}]
MCPBridgeToolI == [kind |-> "mcp", roots |-> {}]
NoTool == [kind |-> "none", roots |-> {}]

ToolNames == {"filesystem", "terminal", "mcp"}
ToolInstances == {FileSystemToolA, FileSystemToolB, TerminalToolI, MCPBridgeToolI}

\* Tool::execute of the capability inst.
Tool_execute(inst, args, files, servers, outcome) ==
    IF inst.kind = "filesystem" THEN FileSystemTool_execute(inst.roots, args, files)
    ELSE IF inst.kind = "terminal" THEN TerminalTool_execute(args, files, outcome)
    ELSE MCPBridgeTool_execute(servers, args, files)

\* ToolRegistry::execute: tools is the registry (name -> capability, NoTool
\* where none is registered).
ToolRegistry_execute(tools, tool_name, args, files, servers, outcome) ==
    IF tool_name \notin DOMAIN tools \/ tools[tool_name] = NoTool
    THEN Effect(ToolErr("Tool not found"), files, NoIo, NoProc)
    ELSE Tool_execute(tools[tool_name], args, files, servers, outcome)

(***************************************************************************)
(* State.                                                                  *)
(***************************************************************************)
VARIABLES
    fsFiles,        \* the regular files that exist: path -> content
    tools,          \* ToolRegistry.tools: name -> capability
    mcp_servers,    \* MCPBridgeTool.mcp_servers: the registered server names
    toolCall,       \* the ToolRegistry::execute call of the last step, or NoCall
    toolOut,        \* its outcome
    toolIo,         \* the file I/O it issued
    toolProc,       \* the process it started
    emits,          \* the notifications the last step emitted to the host, in order
    policyCheck,    \* the call of the policy engine the last step was, with its result
    sessions,       \* RealtimeVoiceManager.sessions: the mapping id -> RealtimeSession
    chan,           \* per realtime id: the messages queued in its mpsc channel
    wire,           \* per realtime id: the frames written to its connection
    writer,         \* per realtime id: where its outbound task is
    reader,         \* per realtime id: where its inbound task is
    submitted,      \* history: per realtime id, every frame sent into its channel
    calls,          \* history: per realtime id, the function calls handled
    rtFail,         \* history: per realtime id, transport failure seen / entry removed by it
    rtNotified,     \* history: the ids an error or stopped notification was emitted for
    rtStep,         \* the realtime operation the last step was, and what it returned
    clock,          \* the wall clock, in milliseconds
    vsessions,      \* EnhancedVoiceManager.sessions: the mapping id -> VoiceSession
    vtasks,         \* the transcription tasks spawned by add_audio_chunk and not yet ended
    vstarted,       \* history: the transcriptions started, in order
    vaccepted,      \* history: the audio chunks appended to a buffer, in order
    vstopped,       \* history: the ids of the sessions stop_session has removed
    vborn,          \* history: per voice id, how long vaccepted and vstarted were at its creation
    mgr,            \* the command that holds the manager's mutex across an await
    vStep           \* the voice operation the last step was, and what it returned

hostVars == <<emits, policyCheck>>

rtVars == <<sessions, chan, wire, writer, reader, submitted, calls, rtFail, rtNotified, rtStep>>

voiceVars == <<clock, vsessions, vtasks, vstarted, vaccepted, vstopped, vborn, mgr, vStep>>

toolVars == <<fsFiles, tools, mcp_servers, toolCall, toolOut, toolIo, toolProc>>

(***************************************************************************)
(* The calls the host and the remote engine make on the registry.          *)
(***************************************************************************)
ToolArgs(action, path, content, command, server, tool) ==
    [action |-> action, path |-> path, content |-> content, command |-> command,
     server |-> server, tool |-> tool]

CallPaths ==
    { <<"/", "t", "m", "p", "/", "a">>, <<"/", "t", "m", "p", "/", "n", "e", "w">>, <<"/", "t", "m", "p", "/", ".", ".", "/", "e", "t", "c", "/", "p", "a", "s", "s", "w", "d">>, <<"/", "e", "t", "c", "/", "p", "a", "s", "s", "w", "d">>, <<"/", "t", "m", "p", "/", ".", "s", "s", "h", "/", "k">>,
      <<"/", "t", "m", "p", "x", "/", "f">>, <<"/", "t", "m", "p", "/", "l", "/", "p", "a", "s", "s", "w", "d">>, <<"~", "/", "D", "o", "c", "u", "m", "e", "n", "t", "s", "/", "d">>, <<"/", "h", "o", "m", "e", "/", "u", "/", "D", "o", "c", "u", "m", "e", "n", "t", "s", "/", "d">>, <<"/", "t", "m", "p">>,
      <<"/", "t", "m", "p", "/", ".", "e", "n", "v">>, Null }

CallCommands ==
    { <<"l", "s", " ", "/", "t", "m", "p">>, <<"g", "i", "t", " ", "s", "t", "a", "t", "u", "s">>, <<"g", "i", "t", " ", "p", "u", "s", "h">>, <<"e", "c", "h", "o", " ", "h", "i">>, <<"l", "s", " ", ";", " ", "r", "m", " ", "-", "r", "f", " ", "/", "t", "m", "p", "/", "a">>,
      <<"/", "b", "i", "n", "/", "l", "s">>, <<"p", "y", "t", "h", "o", "n", "3", " ", "x", ".", "p", "y">>, <<"r", "m", " ", "/", "t", "m", "p", "/", "a">>, <<>>, Null }

\* The paths a write is asked for.
WritePaths == { <<"/", "t", "m", "p", "/", "n", "e", "w">>, <<"/", "t", "m", "p", "/", ".", ".", "/", "e", "t", "c", "/", "p", "a", "s", "s", "w", "d">>, <<"/", "h", "o", "m", "e", "/", "u", "/", "D", "o", "c", "u", "m", "e", "n", "t", "s", "/", "d">>, Null }

FileSystemCalls ==
    {ToolArgs(a, q, Null, Null, Null, Null) : a \in {<<"r", "e", "a", "d">>, <<"l", "i", "s", "t">>}, q \in CallPaths}
    \cup {ToolArgs(a, <<"/", "t", "m", "p", "/", "a">>, Null, Null, Null, Null) : a \in {<<"d", "e", "l", "e", "t", "e">>, Null}}
    \cup {ToolArgs(<<"w", "r", "i", "t", "e">>, q, <<"new">>, Null, Null, Null) : q \in WritePaths}
    \cup {ToolArgs(<<"w", "r", "i", "t", "e">>, <<"/", "t", "m", "p", "/", "n", "e", "w">>, Null, Null, Null, Null)}

TerminalCalls == {ToolArgs(Null, Null, Null, c, Null, Null) : c \in CallCommands}

McpServerNames == {<<"s", "1">>}

McpCalls ==
    {ToolArgs(Null, Null, Null, Null, sv, t) : sv \in McpServerNames \cup {<<"s", "2">>, Null},
                                                t \in {<<"t">>, Null}}

\* A call reaches the capability it is meant for, or names a tool that was
\* never registered.
RegistryCalls ==
    {[name |-> "filesystem", args |-> a] : a \in FileSystemCalls}
    \cup {[name |-> "terminal", args |-> a] : a \in TerminalCalls}
    \cup {[name |-> "mcp", args |-> a] : a \in McpCalls}
    \cup {[name |-> "nonexistent_tool", args |-> ToolArgs(Null, Null, Null, Null, Null, Null)]}

NoCall == [name |-> "none", args |-> ToolArgs(Null, Null, Null, Null, Null, Null)]
NoOut == [kind |-> "none", success |-> FALSE, output |-> <<>>, error |-> "none"]

ToolsInit ==
    /\ fsFiles = [f \in FsInitFiles |-> "old"]
    /\ tools = [n \in ToolNames |-> NoTool]
    /\ mcp_servers = {}
    /\ toolCall = NoCall
    /\ toolOut = NoOut
    /\ toolIo = NoIo
    /\ toolProc = NoProc

\* A variant of register that keeps the capability already held under the
\* name.
register_if_absent(inst) ==
    /\ tools' = IF tools[inst.kind] = NoTool THEN [tools EXCEPT ![inst.kind] = inst] ELSE tools
    /\ toolCall' = NoCall /\ toolOut' = NoOut /\ toolIo' = NoIo /\ toolProc' = NoProc
    /\ UNCHANGED <<fsFiles, mcp_servers, hostVars, rtVars, voiceVars>>

\* ToolRegistry::register inserts or replaces by the capability's name.
register(inst) ==
    /\ tools' = [tools EXCEPT ![inst.kind] = inst]
    /\ toolCall' = NoCall /\ toolOut' = NoOut /\ toolIo' = NoIo /\ toolProc' = NoProc
    /\ UNCHANGED <<fsFiles, mcp_servers, hostVars, rtVars, voiceVars>>

\* MCPBridgeTool::register_server
register_server(name) ==
    /\ mcp_servers' = mcp_servers \cup {name}
    /\ toolCall' = NoCall /\ toolOut' = NoOut /\ toolIo' = NoIo /\ toolProc' = NoProc
    /\ UNCHANGED <<fsFiles, tools, hostVars, rtVars, voiceVars>>

\* ToolRegistry::execute(name, args), called by the host.
execute(call, outcome) ==
    LET e == ToolRegistry_execute(tools, call.name, call.args, fsFiles, mcp_servers, outcome) IN
    /\ toolCall' = call
    /\ toolOut' = e.out
    /\ toolIo' = e.io
    /\ toolProc' = e.proc
    /\ fsFiles' = e.files
    /\ UNCHANGED <<tools, mcp_servers, hostVars, rtVars, voiceVars>>

ToolsNext ==
    \/ \E inst \in ToolInstances : register(inst)
    \/ \E name \in McpServerNames : register_server(name)
    \/ \E call \in RegistryCalls :
          \E outcome \in (IF call.name = "terminal" THEN ProcOutcomes ELSE {"exit_ok"}) :
              execute(call, outcome)

(***************************************************************************)
(* Realtime session protocol bridge: realtime_voice.rs                     *)
(*                                                                         *)
(* Each session has a writer task (the outbound flow: it takes messages    *)
(* from the session's mpsc channel and writes them to the connection) and  *)
(* a reader task (the inbound flow).  The session mapping is behind one    *)
(* reader/writer lock: a step that takes the write lock waits while a      *)
(* read guard is held across steps (execute_tool_call, between its two     *)
(* sends); every other critical section is one step.                       *)
(***************************************************************************)
\* Session ids are fresh UUIDs: an id is used for one create_session only.
\* The ids are named in the order in which they are drawn.
RtOrder == <<"r1", "r2">>
RtIds == {RtOrder[i] : i \in 1..Len(RtOrder)}

\* Frames submitted to the channels, and function calls handled, of all
\* sessions together that the model follows.
MaxFrames == 4
MaxCalls == 2

RECURSIVE SumOver(_, _)
SumOver(f, S) ==
    IF S = {} THEN 0
    ELSE LET x == CHOOSE x \in S : TRUE IN f[x] + SumOver(f, S \ {x})

\* A to_lowercase that leaves the text as it is.
to_lowercase_asis(s) == s

\* str::to_lowercase
to_lowercase(s) ==
    LET upper == <<"A", "B", "C", "D", "E", "F", "G", "H", "I", "J", "K", "L", "M", "N", "O", "P", "Q", "R", "S", "T", "U", "V", "W", "X", "Y", "Z">>
        lower == <<"a", "b", "c", "d", "e", "f", "g", "h", "i", "j", "k", "l", "m", "n", "o", "p", "q", "r", "s", "t", "u", "v", "w", "x", "y", "z">>
        lc(c) == IF \E i \in 1..Len(upper) : upper[i] = c
                 THEN lower[CHOOSE i \in 1..Len(upper) : upper[i] = c]
                 ELSE c
    IN [i \in 1..Len(s) |-> lc(s[i])]

\* The frames of the outbound direction.
Frame(type, call_id, payload) == [type |-> type, call_id |-> call_id, payload |-> payload]

\* A first frame that is no configuration frame.
SessionUpdate_unsent == Frame("response.create", 0, <<>>)
SessionUpdate == Frame("session.update", 0, <<>>)
AudioAppend(data) == Frame("input_audio_buffer.append", 0, data)
FunctionCallOutput(call_id, output) == Frame("function_call_output", call_id, output)
ResponseCreate == Frame("response.create", 0, <<>>)

\* The audio a send_audio call hands over: every call brings other bytes,
\* named by the number of frames submitted before it.
AudioData == {<<"pcm", SumOver([s \in RtIds |-> Len(submitted[s])], RtIds) + 1>>}

\* The content parts of a conversation item.  The arguments of a function
\* call are JSON text: decodable says whether serde_json can parse it.
Part(type, name, args, decodable) ==
    [type |-> type, name |-> name, args |-> args, decodable |-> decodable, call_id |-> 0]

TextPart == Part("text", "none", NoCall.args, TRUE)
AudioPart == Part("audio", "none", NoCall.args, TRUE)
FcRead == Part("function_call", "filesystem",
               ToolArgs(<<"r", "e", "a", "d">>, <<"/", "t", "m", "p", "/", "a">>, Null, Null, Null, Null), TRUE)
FcDenied == Part("function_call", "filesystem",
                 ToolArgs(<<"r", "e", "a", "d">>, <<"/", "e", "t", "c", "/", "p", "a", "s", "s", "w", "d">>, Null, Null, Null, Null), TRUE)
FcUnknownTool == Part("function_call", "nonexistent_tool", NoCall.args, TRUE)
FcBadJson == Part("function_call", "filesystem", NoCall.args, FALSE)

\* The content of the conversation.item.created events received.
ItemContents ==
    { <<>>, <<TextPart>>, <<AudioPart>>, <<FcBadJson, FcRead>>,
      <<FcRead>>, <<FcDenied>>, <<FcUnknownTool>>, <<FcBadJson>> }

\* What read.next() yields.
Msg(kind, parts, delta) == [kind |-> kind, parts |-> parts, delta |-> delta]

InboundMessages ==
    {Msg("item", c, <<>>) : c \in ItemContents}
    \cup {Msg("transcript", <<>>, d) : d \in { <<"G", "o", " ", "T", "o", " ", "S", "l", "e", "e", "p">>, <<"h", "e", "l", "l", "o">> }}
    \cup {Msg(k, <<>>, <<>>) :
            k \in {"speech_started", "speech_stopped", "error", "other_event",
                   "undecodable", "binary", "other_message", "read_error", "stream_end"}}

\* An emit that reaches no listener of the event.
Emit_unheard(ev, id, val) == [ev |-> "none", id |-> id, val |-> val]

Emit(ev, id, val) == [ev |-> ev, id |-> id, val |-> val]

ReaderAt(pc, parts) == [pc |-> pc, parts |-> parts, out |-> <<>>, ok |-> FALSE]

\* A variant of Step that reports success whatever the operation returned.
Step_ok(op, id, ret) == [op |-> op, id |-> id, ret |-> "Ok"]

\* The operation a step was: its name, the id it was about, what it returned.
Step(op, id, ret) == [op |-> op, id |-> id, ret |-> ret]

\* A read guard on the session mapping is held from one step to the next.
ReadLocked == \E s \in RtIds : reader[s].pc = "trigger"

\* The bound on the frames: those submitted and those the tool calls in
\* progress will submit leave room for n more.
FramesLeft(n) ==
    SumOver([s \in RtIds |-> Len(submitted[s])
                             + (IF reader[s].pc = "send" THEN 2
                                ELSE IF reader[s].pc = "trigger" THEN 1 ELSE 0)], RtIds)
        + n <= MaxFrames

\* A variant of RemoveKey that removes nothing.
RemoveKey_nothing(f, k) == f

\* A removal that empties the mapping.
RemoveKey_all(f, k) == << >>

RemoveKey(f, k) == [x \in DOMAIN f \ {k} |-> f[x]]

\* The ids among the notifications es that an error or stopped notification
\* is for.
ErrorNotified(es) ==
    {es[i].id : i \in {j \in 1..Len(es) : es[j].ev \in {"realtime-error", "realtime-stopped"}}}

RtInit ==
    /\ sessions = << >>
    /\ chan = [s \in RtIds |-> <<>>]
    /\ wire = [s \in RtIds |-> <<>>]
    /\ writer = [s \in RtIds |-> "none"]
    /\ reader = [s \in RtIds |-> ReaderAt("none", <<>>)]
    /\ submitted = [s \in RtIds |-> <<>>]
    /\ calls = [s \in RtIds |-> <<>>]
    /\ rtFail = [s \in RtIds |-> "none"]
    /\ rtNotified = {}
    /\ rtStep = Step("none", "none", "-")

\* What every realtime step leaves alone.
RtFrame ==
    UNCHANGED <<tools, mcp_servers, toolCall, toolOut, toolIo, toolProc, policyCheck, voiceVars>>

\* tx.send: the message is queued in the channel.
tx_send(s, frame) ==
    /\ chan' = [chan EXCEPT ![s] = Append(@, frame)]
    /\ submitted' = [submitted EXCEPT ![s] = Append(@, frame)]

\* RealtimeVoiceManager::create_session; s is the id it draws, the ids being
\* named in the order they are drawn.  The handshake fails, or the send
\* of the configuration frame fails, or the session is inserted and its two
\* tasks are spawned.
rt_create_session(s, outcome) ==
    /\ writer[s] = "none"
    /\ \E i \in 1..Len(RtOrder) :
          RtOrder[i] = s /\ \A j \in 1..(i - 1) : writer[RtOrder[j]] # "none"
    /\ IF outcome \in {"connect_error", "config_error"}
       THEN /\ rtStep' = Step("create_session", s, "Err")
            /\ UNCHANGED <<sessions, wire, writer, reader>>
       ELSE /\ ~ReadLocked
            /\ wire' = [wire EXCEPT ![s] = <<SessionUpdate>>]
            /\ sessions' = [x \in DOMAIN sessions \cup {s} |->
                              IF x = s THEN [is_active |-> TRUE, is_sleeping |-> FALSE]
                              ELSE sessions[x]]
            /\ writer' = [writer EXCEPT ![s] = "recv"]
            /\ reader' = [reader EXCEPT ![s] = ReaderAt("next", <<>>)]
            /\ rtStep' = Step("create_session", s, "Ok")
    /\ emits' = <<>>
    /\ UNCHANGED <<chan, submitted, calls, rtFail, rtNotified, fsFiles>>
    /\ RtFrame

\* A send_audio that does not look at the flag.
is_sleeping_never(session) == FALSE

\* send_audio: "Don't process audio when sleeping".
is_sleeping(session) == session.is_sleeping

\* RealtimeVoiceManager::send_audio: the read guard is held for the whole call.
send_audio(s, audio_data) ==
    /\ IF s \notin DOMAIN sessions
       THEN /\ rtStep' = Step("send_audio", s, "Err: Session not found")
            /\ UNCHANGED <<chan, submitted>>
       ELSE IF is_sleeping(sessions[s])
       THEN /\ rtStep' = Step("send_audio", s, "Ok")
            /\ UNCHANGED <<chan, submitted>>
       ELSE /\ FramesLeft(1)
            /\ tx_send(s, AudioAppend(audio_data))
            /\ rtStep' = Step("send_audio", s, "Ok")
    /\ emits' = <<>>
    /\ UNCHANGED <<sessions, wire, writer, reader, calls, rtFail, rtNotified, fsFiles>>
    /\ RtFrame

\* RealtimeVoiceManager::wake_up
wake_up(s) ==
    /\ ~ReadLocked
    /\ IF s \in DOMAIN sessions
       THEN /\ sessions' = [sessions EXCEPT ![s].is_sleeping = FALSE]
            /\ emits' = <<Emit("realtime-sleeping", s, <<"f", "a", "l", "s", "e">>)>>
       ELSE /\ UNCHANGED sessions
            /\ emits' = <<>>
    /\ rtStep' = Step("wake_up", s, "Ok")
    /\ UNCHANGED <<chan, wire, writer, reader, submitted, calls, rtFail, rtNotified, fsFiles>>
    /\ RtFrame

\* RealtimeVoiceManager::close_session: the entry is removed and with it the
\* channel's only sender.
close_session(s) ==
    /\ ~ReadLocked
    /\ sessions' = RemoveKey(sessions, s)
    /\ rtStep' = Step("close_session", s, "Ok")
    /\ emits' = <<>>
    /\ UNCHANGED <<chan, wire, writer, reader, submitted, calls, rtFail, rtNotified, fsFiles>>
    /\ RtFrame

\* A channel that hands out its newest message first.
rx_recv_newest(q) == [msg |-> q[Len(q)], rest |-> SubSeq(q, 1, Len(q) - 1)]

\* rx.recv(): the oldest queued message and the messages that stay queued.
rx_recv(q) == [msg |-> Head(q), rest |-> Tail(q)]

\* The writer task: one message is taken from the channel and written; a
\* failed write ends the loop after the entry is removed.
WriterWrite(s, ok) ==
    /\ writer[s] = "recv"
    /\ chan[s] # <<>>
    /\ chan' = [chan EXCEPT ![s] = rx_recv(chan[s]).rest]
    /\ IF ok
       THEN /\ wire' = [wire EXCEPT ![s] = Append(@, rx_recv(chan[s]).msg)]
            /\ UNCHANGED <<writer, rtFail>>
       ELSE /\ writer' = [writer EXCEPT ![s] = "remove"]
            /\ rtFail' = [rtFail EXCEPT ![s] = IF @ = "none" THEN "failed" ELSE @]
            /\ UNCHANGED wire
    /\ rtStep' = Step("writer", s, "-")
    /\ emits' = <<>>
    /\ UNCHANGED <<sessions, reader, submitted, calls, rtNotified, fsFiles>>
    /\ RtFrame

\* sessions.write().await.remove(&session_id_out); break
WriterRemove(s) ==
    /\ writer[s] = "remove"
    /\ ~ReadLocked
    /\ sessions' = RemoveKey(sessions, s)
    /\ rtFail' = [rtFail EXCEPT ![s] = IF s \in DOMAIN sessions THEN "removed" ELSE @]
    /\ writer' = [writer EXCEPT ![s] = "done"]
    /\ chan' = [chan EXCEPT ![s] = <<>>]
    /\ rtStep' = Step("writer", s, "-")
    /\ emits' = <<>>
    /\ UNCHANGED <<wire, reader, submitted, calls, rtNotified, fsFiles>>
    /\ RtFrame

\* A writer task that goes on waiting on a channel whose sender is gone.
WriterClosed_waits(s) == FALSE /\ UNCHANGED writer

\* rx.recv() yields None: the channel is empty and its sender was dropped
\* with the entry.
WriterClosed(s) ==
    /\ writer[s] = "recv"
    /\ chan[s] = <<>>
    /\ s \notin DOMAIN sessions
    /\ writer' = [writer EXCEPT ![s] = "done"]
    /\ rtStep' = Step("writer", s, "-")
    /\ emits' = <<>>
    /\ UNCHANGED <<sessions, chan, wire, reader, submitted, calls, rtFail, rtNotified, fsFiles>>
    /\ RtFrame

\* The function-call parts of parts get the call ids base+1, base+2, ... in
\* the order of the parts (the server names each call of a session once).
RECURSIVE WithCallIds(_, _)
WithCallIds(parts, base) ==
    IF parts = <<>> THEN <<>>
    ELSE IF Head(parts).type = "function_call"
    THEN <<[Head(parts) EXCEPT !.call_id = base + 1]>> \o WithCallIds(Tail(parts), base + 1)
    ELSE <<Head(parts)>> \o WithCallIds(Tail(parts), base)

FunctionCallCount(parts) == Cardinality({i \in 1..Len(parts) : parts[i].type = "function_call"})

\* A function call the inbound flow has handled: whether its arguments were
\* decoded, whether the tool succeeded, and whether the session was in the
\* mapping when the result was to be sent.
Call(call_id, decoded, success, existing) ==
    [call_id |-> call_id, decoded |-> decoded, success |-> success, existing |-> existing]


\* The part at the head is done: on to the next part, or back to read.next().
ReaderAdvance(s) ==
    reader' = [reader EXCEPT ![s] =
                 ReaderAt(IF Tail(@.parts) = <<>> THEN "next" ELSE "part", Tail(@.parts))]

\* The reader task takes the next message of the connection: the arms of
\* the match in the reader loop and, for an event, of handle_realtime_event
\* up to the loop over the content parts.
ReaderRecv(s, msg) ==
    /\ reader[s].pc = "next"
    /\ SumOver([x \in RtIds |-> Len(calls[x])], RtIds) + FunctionCallCount(msg.parts) <= MaxCalls
    /\ LET sleep == msg.kind = "transcript" /\ Contains(to_lowercase(msg.delta), <<"g", "o", " ", "t", "o", " ", "s", "l", "e", "e", "p">>)
           found == s \in DOMAIN sessions
       IN
       /\ sleep => ~ReadLocked
       /\ sessions' = IF sleep /\ found
                      THEN [sessions EXCEPT ![s].is_sleeping = TRUE]
                      ELSE sessions
       /\ emits' =
            CASE msg.kind = "transcript" ->
                   <<Emit("realtime-transcript", s, msg.delta)>>
                   \o (IF sleep /\ found THEN <<Emit("realtime-sleeping", s, <<"t", "r", "u", "e">>)>> ELSE <<>>)
              [] msg.kind = "speech_started" -> <<Emit("realtime-speech-started", s, <<>>)>>
              [] msg.kind = "speech_stopped" -> <<Emit("realtime-speech-stopped", s, <<>>)>>
              [] msg.kind = "error" -> <<Emit("realtime-error", s, <<>>)>>
              [] msg.kind = "binary" -> <<Emit("realtime-audio", s, <<>>)>>
              [] OTHER -> <<>>
    /\ reader' = [reader EXCEPT ![s] =
                    CASE msg.kind = "item" /\ msg.parts # <<>> ->
                           ReaderAt("part", WithCallIds(msg.parts, Len(calls[s])))
                      [] msg.kind = "read_error" -> ReaderAt("remove", <<>>)
                      [] msg.kind = "stream_end" -> ReaderAt("done", <<>>)
                      [] OTHER -> @]
    /\ rtFail' = [rtFail EXCEPT ![s] =
                    IF msg.kind = "read_error" /\ @ = "none" THEN "failed" ELSE @]
    /\ rtNotified' = rtNotified \cup ErrorNotified(emits')
    /\ rtStep' = Step("reader", s, "-")
    /\ UNCHANGED <<chan, wire, writer, submitted, calls, fsFiles>>
    /\ RtFrame

\* sessions.write().await.remove(&session_id_in); break
ReaderRemove(s) ==
    /\ reader[s].pc = "remove"
    /\ ~ReadLocked
    /\ sessions' = RemoveKey(sessions, s)
    /\ rtFail' = [rtFail EXCEPT ![s] = IF s \in DOMAIN sessions THEN "removed" ELSE @]
    /\ reader' = [reader EXCEPT ![s] = ReaderAt("done", <<>>)]
    /\ rtStep' = Step("reader", s, "-")
    /\ emits' = <<>>
    /\ UNCHANGED <<chan, wire, writer, submitted, calls, rtNotified, fsFiles>>
    /\ RtFrame

\* One content part of the item: a text part is shown in the chat, a
\* function call whose arguments decode is run by the registry
\* (execute_tool_call up to the result), any other part is skipped.
ReaderPart(s) ==
    /\ reader[s].pc = "part"
    /\ LET part == Head(reader[s].parts)
           e == ToolRegistry_execute(tools, part.name, part.args, fsFiles, mcp_servers, "exit_ok")
       IN
       IF part.type = "function_call" /\ part.decodable
       THEN /\ FramesLeft(2)
            /\ reader' = [reader EXCEPT ![s] =
                  [pc |-> "send", parts |-> @.parts,
                   out |-> IF e.out.kind = "Err"
                           THEN <<"Tool execution failed: ", e.out.error>>
                           ELSE e.out.output,
                   ok |-> e.out.success]]
            /\ fsFiles' = e.files
            /\ emits' = <<>>
            /\ UNCHANGED calls
       ELSE /\ ReaderAdvance(s)
            /\ emits' = IF part.type = "text" THEN <<Emit("chat-message", s, <<>>)>> ELSE <<>>
            /\ calls' = IF part.type = "function_call"
                        THEN [calls EXCEPT ![s] =
                                Append(@, Call(part.call_id, FALSE, FALSE, s \in DOMAIN sessions))]
                        ELSE calls
            /\ UNCHANGED fsFiles
    /\ rtStep' = Step("reader", s, "-")
    /\ UNCHANGED <<sessions, chan, wire, writer, submitted, rtFail, rtNotified>>
    /\ RtFrame

\* execute_tool_call: the read guard is taken; the session is looked up and
\* the result frame is sent to its channel.  Without the session nothing is
\* sent and the result is reported to the host.
ReaderSendOutput(s) ==
    /\ reader[s].pc = "send"
    /\ LET part == Head(reader[s].parts)
           found == s \in DOMAIN sessions
       IN
       /\ calls' = [calls EXCEPT ![s] =
                      Append(@, Call(part.call_id, TRUE, reader[s].ok, found))]
       /\ IF found
          THEN /\ tx_send(s, FunctionCallOutput(part.call_id, reader[s].out))
               /\ reader' = [reader EXCEPT ![s].pc = "trigger"]
               /\ emits' = <<>>
          ELSE /\ ReaderAdvance(s)
               /\ emits' = <<Emit("tool-executed", s, <<>>)>>
               /\ UNCHANGED <<chan, submitted>>
    /\ rtStep' = Step("reader", s, "-")
    /\ UNCHANGED <<sessions, wire, writer, rtFail, rtNotified, fsFiles>>
    /\ RtFrame

\* execute_tool_call: the response trigger is sent, the read guard is
\* released and the result is reported to the host.
ReaderSendTrigger(s) ==
    /\ reader[s].pc = "trigger"
    /\ tx_send(s, ResponseCreate)
    /\ ReaderAdvance(s)
    /\ emits' = <<Emit("tool-executed", s, <<>>)>>
    /\ rtStep' = Step("reader", s, "-")
    /\ UNCHANGED <<sessions, wire, writer, calls, rtFail, rtNotified, fsFiles>>
    /\ RtFrame

\* The steps of the realtime manager with one session, the first.
RtNext ==
    \/ \E s \in {RtOrder[1]}, o \in {"connect_error", "config_error", "ok"} : rt_create_session(s, o)
    \/ \E s \in {RtOrder[1]}, d \in AudioData : send_audio(s, d)
    \/ \E s \in {RtOrder[1]} : wake_up(s)
    \/ \E s \in {RtOrder[1]} : close_session(s)
    \/ \E s \in {RtOrder[1]}, ok \in BOOLEAN : WriterWrite(s, ok)
    \/ \E s \in {RtOrder[1]} : WriterRemove(s)
    \/ \E s \in {RtOrder[1]} : WriterClosed(s)
    \/ \E s \in {RtOrder[1]}, msg \in InboundMessages : ReaderRecv(s, msg)
    \/ \E s \in {RtOrder[1]} : ReaderRemove(s)
    \/ \E s \in {RtOrder[1]} : ReaderPart(s)
    \/ \E s \in {RtOrder[1]} : ReaderSendOutput(s)
    \/ \E s \in {RtOrder[1]} : ReaderSendTrigger(s)

(***************************************************************************)
(* Voice pipeline: voice_system.rs                                         *)
(*                                                                         *)
(* The host reaches the manager through the commands, each of which holds  *)
(* the manager's mutex for the whole call: one command runs at a time.     *)
(* The transcription tasks that add_audio_chunk spawns run beside them.    *)
(***************************************************************************)
\* The clock values (milliseconds) and the audio chunks accepted that the
\* model follows.
MaxClock == 2
MaxChunks == 2

\* format!("voice_{}", timestamp_millis)
session_id(t) == <<"voice_", t>>

VoiceIds == {session_id(t) : t \in 1..MaxClock}
NoVoiceId == session_id(0)

VoiceConfigs ==
    {[audio_format |-> f, wake_word |-> <<"h", "e", "y", " ", "b", "r", "a", "i", "n">>] : f \in {<<"w", "e", "b", "m">>, <<"w", "a", "v">>, <<"m", "p", "3">>}}

\* The sizes in bytes of the chunks the host hands over.
ChunkSizes == {8000, 16000}

\* What a transcription yields: a text, or a failure.
TranscribeResults ==
    {[ok |-> TRUE, text |-> t] : t \in { <<"H", "e", "y", " ", "B", "r", "a", "i", "n", " ", "L", "i", "g", "h", "t", "s", " ", "o", "n">>, <<"l", "i", "g", "h", "t", "s", " ", "o", "f", "f">> }}
    \cup {[ok |-> FALSE, text |-> <<>>]}

\* Vec::len of a buffer kept as the chunks appended to it.
RECURSIVE BufLen(_)
BufLen(buf) == IF buf = <<>> THEN 0 ELSE Head(buf).len + BufLen(Tail(buf))

\* add_audio_chunk: the threshold of the session's audio format.
buffer_threshold(audio_format) ==
    IF audio_format = <<"w", "e", "b", "m">> THEN 16000
    ELSE IF audio_format = <<"w", "a", "v">> THEN 32000
    ELSE 16000

\* A drain that waits until the buffer is longer than the threshold.
reaches_threshold_above(len, threshold) == len > threshold

\* add_audio_chunk: the buffer is handed to a transcription.
reaches_threshold(len, threshold) == len >= threshold

\* A drain that leaves the buffer as it is.
clear_nothing(buf) == buf

\* add_audio_chunk: session_lock.audio_buffer.clear()
clear(buf) == <<>>

\* str::trim
RECURSIVE trim_start(_)
trim_start(s) == IF s # <<>> /\ Head(s) = " " THEN trim_start(Tail(s)) ELSE s

RECURSIVE trim_end(_)
trim_end(s) ==
    IF s # <<>> /\ s[Len(s)] = " " THEN trim_end(SubSeq(s, 1, Len(s) - 1)) ELSE s

trim(s) == trim_end(trim_start(s))

\* s.split(pat).nth(1).unwrap_or(""): what lies between the first match of
\* pat and the next one.
FirstMatch(s, pat) ==
    LET I == {i \in 0..(Len(s) - Len(pat)) : \A j \in 1..Len(pat) : s[i + j] = pat[j]}
    IN IF I = {} THEN -1 ELSE CHOOSE i \in I : \A k \in I : i <= k

split_nth1(s, pat) ==
    IF pat = <<>> THEN (IF s = <<>> THEN <<>> ELSE <<s[1]>>)
    ELSE IF FirstMatch(s, pat) < 0 THEN <<>>
    ELSE LET rest == DropFirst(s, FirstMatch(s, pat) + Len(pat)) IN
         IF FirstMatch(rest, pat) < 0 THEN rest ELSE SubSeq(rest, 1, FirstMatch(rest, pat))

\* A session that is created with the wake word taken as detected.
VoiceSession_armed(config) ==
    [config |-> config, is_active |-> TRUE, audio_buffer |-> <<>>,
     wake_word_detected |-> TRUE, conversation_active |-> FALSE]

\* create_session: the session as it is inserted.
VoiceSession(config) ==
    [config |-> config, is_active |-> TRUE, audio_buffer |-> <<>>,
     wake_word_detected |-> FALSE, conversation_active |-> FALSE]

\* The command that holds the manager's mutex across an await.
MgrIdle == [op |-> "none", id |-> NoVoiceId, audio |-> <<>>]
MgrIn(op, id, audio) == [op |-> op, id |-> id, audio |-> audio]

\* A transcription started: for which session, on which audio, and whether
\* it is the final one of stop_session.
Started(sid, audio, final) == [sid |-> sid, audio |-> audio, final |-> final]

\* A write guard of the session mapping that is never given back.
WriteLocked_held == TRUE

\* stop_session holds the write guard of the session mapping while it
\* awaits its transcription.
WriteLocked == mgr.op = "stop_session"

VoiceInit ==
    /\ clock = 1
    /\ vsessions = << >>
    /\ vtasks = {}
    /\ vstarted = <<>>
    /\ vaccepted = <<>>
    /\ vstopped = {}
    /\ vborn = [id \in VoiceIds |-> [acc |-> 0, st |-> 0]]
    /\ mgr = MgrIdle
    /\ vStep = Step("none", NoVoiceId, "-")

\* What every step of the voice pipeline leaves alone.
VoiceFrame == UNCHANGED <<toolVars, policyCheck, rtVars>>

\* Time passes.
Tick ==
    /\ clock < MaxClock
    /\ clock' = clock + 1
    /\ emits' = <<>>
    /\ vStep' = Step("none", NoVoiceId, "-")
    /\ UNCHANGED <<vsessions, vtasks, vstarted, vaccepted, vstopped, mgr>>
    /\ UNCHANGED vborn
    /\ VoiceFrame

\* commands::voice_create_session, EnhancedVoiceManager::create_session
voice_create_session(config) ==
    /\ mgr = MgrIdle
    /\ vsessions' = [x \in DOMAIN vsessions \cup {session_id(clock)} |->
                       IF x = session_id(clock) THEN VoiceSession(config) ELSE vsessions[x]]
    /\ emits' = <<Emit("voice-session-started", session_id(clock), <<>>)>>
    /\ vStep' = Step("create_session", session_id(clock), "Ok")
    /\ UNCHANGED <<clock, vtasks, vstarted, vaccepted, vstopped, mgr>>
    /\ vborn' = [vborn EXCEPT ![session_id(clock)] =
                    [acc |-> Len(vaccepted), st |-> Len(vstarted)]]
    /\ VoiceFrame

\* commands::voice_stop_session, EnhancedVoiceManager::stop_session up to the
\* await of the final transcription; without one, to its end.
voice_stop_session(id) ==
    /\ mgr = MgrIdle
    /\ IF id \in DOMAIN vsessions /\ vsessions[id].audio_buffer # <<>>
       THEN /\ vsessions' = [vsessions EXCEPT ![id].is_active = FALSE]
            /\ mgr' = MgrIn("stop_session", id, vsessions[id].audio_buffer)
            /\ vstarted' = Append(vstarted, Started(id, vsessions[id].audio_buffer, TRUE))
            /\ emits' = <<>>
            /\ vStep' = Step("stop_session", id, "pending")
            /\ UNCHANGED vstopped
       ELSE /\ vsessions' = RemoveKey(vsessions, id)
            /\ emits' = <<Emit("voice-session-stopped", id, <<>>)>>
            /\ vStep' = Step("stop_session", id, "Ok")
            /\ vstopped' = IF id \in DOMAIN vsessions THEN vstopped \cup {id} ELSE vstopped
            /\ UNCHANGED <<mgr, vstarted>>
    /\ UNCHANGED <<clock, vtasks, vaccepted>>
    /\ UNCHANGED vborn
    /\ VoiceFrame

\* stop_session from the result of the final transcription to its end.
StopTranscribed(result) ==
    /\ mgr.op = "stop_session"
    /\ emits' = (IF result.ok THEN <<Emit("voice-transcript-final", mgr.id, result.text)>>
                 ELSE <<>>)
                \o <<Emit("voice-session-stopped", mgr.id, <<>>)>>
    /\ vsessions' = RemoveKey(vsessions, mgr.id)
    /\ mgr' = MgrIdle
    /\ vStep' = Step("stop_session", mgr.id, "Ok")
    /\ vstopped' = vstopped \cup {mgr.id}
    /\ UNCHANGED <<clock, vtasks, vstarted, vaccepted>>
    /\ UNCHANGED vborn
    /\ VoiceFrame

\* The transcription task that add_audio_chunk spawns, with the flags it
\* captured when the buffer was drained.
Task(n, sid, audio, session) ==
    [n |-> n, sid |-> sid, audio |-> audio, wake_word |-> session.config.wake_word,
     wake_word_detected |-> session.wake_word_detected,
     conversation_active |-> session.conversation_active,
     pc |-> "transcribe", transcript |-> <<>>, command |-> <<>>]

\* commands::enhanced_voice_add_audio_chunk, EnhancedVoiceManager::add_audio_chunk
enhanced_voice_add_audio_chunk(id, size) ==
    /\ mgr = MgrIdle
    /\ IF id \notin DOMAIN vsessions
       THEN /\ vStep' = Step("add_audio_chunk", id, "Err: Session not found")
            /\ UNCHANGED <<vsessions, vtasks, vstarted, vaccepted>>
       ELSE IF ~vsessions[id].is_active
       THEN /\ vStep' = Step("add_audio_chunk", id, "Err: Session is not active")
            /\ UNCHANGED <<vsessions, vtasks, vstarted, vaccepted>>
       ELSE LET chunk == [n |-> Len(vaccepted) + 1, len |-> size]
                buf == Append(vsessions[id].audio_buffer, chunk)
            IN
            /\ Len(vaccepted) < MaxChunks
            /\ vaccepted' = Append(vaccepted, [sid |-> id, chunk |-> chunk])
            /\ IF reaches_threshold(BufLen(buf), buffer_threshold(vsessions[id].config.audio_format))
               THEN /\ vsessions' = [vsessions EXCEPT ![id].audio_buffer = clear(buf)]
                    /\ vtasks' = vtasks \cup {Task(Len(vstarted) + 1, id, buf, vsessions[id])}
                    /\ vstarted' = Append(vstarted, Started(id, buf, FALSE))
               ELSE /\ vsessions' = [vsessions EXCEPT ![id].audio_buffer = buf]
                    /\ UNCHANGED <<vtasks, vstarted>>
            /\ vStep' = Step("add_audio_chunk", id, "Ok")
    /\ emits' = <<>>
    /\ UNCHANGED <<clock, vstopped, mgr>>
    /\ UNCHANGED vborn
    /\ VoiceFrame

\* A variant of reset_conversation that leaves wake_word_detected as it is.
reset_conversation_only(session) == [session EXCEPT !.conversation_active = FALSE]

\* The two flag assignments of end_conversation.
reset_conversation(session) ==
    [session EXCEPT !.conversation_active = FALSE, !.wake_word_detected = FALSE]

\* commands::voice_end_conversation, EnhancedVoiceManager::end_conversation
voice_end_conversation(id) ==
    /\ mgr = MgrIdle
    /\ IF id \in DOMAIN vsessions
       THEN /\ vsessions' = [vsessions EXCEPT ![id] = reset_conversation(@)]
            /\ emits' = <<Emit("conversation-ended", id, <<>>)>>
            /\ vStep' = Step("end_conversation", id, "Ok")
       ELSE /\ emits' = <<>>
            /\ vStep' = Step("end_conversation", id, "Err: Session not found")
            /\ UNCHANGED vsessions
    /\ UNCHANGED <<clock, vtasks, vstarted, vaccepted, vstopped, mgr>>
    /\ UNCHANGED vborn
    /\ VoiceFrame

\* commands::voice_speak_text, EnhancedVoiceManager::speak_text up to the
\* await of the synthesis.
voice_speak_text(id) ==
    /\ mgr = MgrIdle
    /\ IF id \in DOMAIN vsessions
       THEN /\ mgr' = MgrIn("speak_text", id, <<>>)
            /\ vStep' = Step("speak_text", id, "pending")
       ELSE /\ vStep' = Step("speak_text", id, "Err: Session not found")
            /\ UNCHANGED mgr
    /\ emits' = <<>>
    /\ UNCHANGED <<clock, vsessions, vtasks, vstarted, vaccepted, vstopped>>
    /\ UNCHANGED vborn
    /\ VoiceFrame

\* speak_text from the result of the synthesis to its end.
SpeakSynthesized(ok) ==
    /\ mgr.op = "speak_text"
    /\ emits' = IF ok THEN <<Emit("voice-response", mgr.id, <<>>)>> ELSE <<>>
    /\ vStep' = Step("speak_text", mgr.id, IF ok THEN "Ok" ELSE "Err: synthesis")
    /\ mgr' = MgrIdle
    /\ UNCHANGED <<clock, vsessions, vtasks, vstarted, vaccepted, vstopped>>
    /\ UNCHANGED vborn
    /\ VoiceFrame

\* The spawned task from the result of its transcription up to the update
\* of the session's flags, when it makes one; otherwise to its end.
\* A variant of voice_transcript that surfaces nothing.
voice_transcript_dropped(sid, transcript) == <<>>

\* The notification of a transcript made by a spawned transcription task,
\* whichever branch handled the transcript.
voice_transcript(sid, transcript) == <<Emit("voice-transcript", sid, transcript)>>

TaskTranscribed(task, result) ==
    /\ task \in vtasks
    /\ task.pc = "transcribe"
    /\ LET wake == /\ result.ok
                   /\ ~task.conversation_active /\ ~task.wake_word_detected
                   /\ Contains(to_lowercase(result.text), to_lowercase(task.wake_word))
           command == trim(split_nth1(to_lowercase(result.text), to_lowercase(task.wake_word)))
       IN
       /\ vtasks' = IF wake
                    THEN (vtasks \ {task})
                         \cup {[task EXCEPT !.pc = "update", !.transcript = result.text,
                                            !.command = command]}
                    ELSE vtasks \ {task}
       /\ emits' =
            IF ~result.ok THEN <<Emit("voice-error", task.sid, <<>>)>>
            ELSE IF wake THEN <<Emit("wake-word-detected", task.sid, task.wake_word)>>
            ELSE (IF task.conversation_active
                  THEN <<Emit("voice-command", task.sid, trim(result.text))>>
                  ELSE <<>>)
                 \o voice_transcript(task.sid, result.text)
    /\ vStep' = Step("task", task.sid, "-")
    /\ UNCHANGED <<clock, vsessions, vstarted, vaccepted, vstopped, mgr>>
    /\ UNCHANGED vborn
    /\ VoiceFrame

\* The spawned task after the wake word: the flags of the session are set if
\* it is still in the mapping, then the command, which the task derived from
\* the lower-cased transcript alone, and the transcript are emitted.
TaskUpdate(task) ==
    /\ task \in vtasks
    /\ task.pc = "update"
    /\ ~WriteLocked
    /\ vsessions' = IF task.sid \in DOMAIN vsessions
                    THEN [vsessions EXCEPT ![task.sid].wake_word_detected = TRUE,
                                           ![task.sid].conversation_active = TRUE]
                    ELSE vsessions
    /\ emits' = (IF task.command # <<>>
                 THEN <<Emit("voice-command", task.sid, task.command)>> ELSE <<>>)
                \o voice_transcript(task.sid, task.transcript)
    /\ vtasks' = vtasks \ {task}
    /\ vStep' = Step("task", task.sid, "-")
    /\ UNCHANGED <<clock, vstarted, vaccepted, vstopped, mgr>>
    /\ UNCHANGED vborn
    /\ VoiceFrame

VoiceNext ==
    \/ Tick
    \/ \E c \in VoiceConfigs : voice_create_session(c)
    \/ \E id \in VoiceIds : voice_stop_session(id)
    \/ \E r \in TranscribeResults : StopTranscribed(r)
    \/ \E id \in VoiceIds, size \in ChunkSizes : enhanced_voice_add_audio_chunk(id, size)
    \/ \E id \in VoiceIds : voice_end_conversation(id)
    \/ \E id \in VoiceIds : voice_speak_text(id)
    \/ \E ok \in BOOLEAN : SpeakSynthesized(ok)
    \/ \E task \in vtasks, r \in TranscribeResults : TaskTranscribed(task, r)
    \/ \E task \in vtasks : TaskUpdate(task)

\* The steps of the voice subsystem while the clock stays within one
\* millisecond, and send_audio of the realtime manager, which holds no session.
VoiceNextNow ==
    \/ \E s \in {RtOrder[1]}, audio_data \in AudioData : send_audio(s, audio_data)
    \/ \E c \in VoiceConfigs : voice_create_session(c)
    \/ \E id \in VoiceIds : voice_stop_session(id)
    \/ \E r \in TranscribeResults : StopTranscribed(r)
    \/ \E id \in VoiceIds, size \in ChunkSizes : enhanced_voice_add_audio_chunk(id, size)
    \/ \E id \in VoiceIds : voice_end_conversation(id)
    \/ \E id \in VoiceIds : voice_speak_text(id)
    \/ \E ok \in BOOLEAN : SpeakSynthesized(ok)
    \/ \E task \in vtasks, r \in TranscribeResults : TaskTranscribed(task, r)
    \/ \E task \in vtasks : TaskUpdate(task)

(***************************************************************************)
(* The calls the host makes on the policy engine.                          *)
(***************************************************************************)
\* EnhancedSecurityManager::validate_path(path)
host_validate_path(path) ==
    /\ policyCheck' = [op |-> "validate_path", path |-> path, operation |-> "none",
                       command |-> Null, args |-> <<>>,
                       out |-> validate_path(DOMAIN fsFiles, path)]
    /\ UNCHANGED <<toolVars, emits, rtVars, voiceVars>>

\* EnhancedSecurityManager::validate_command(command, args)
host_validate_command(command, args) ==
    /\ policyCheck' = [op |-> "validate_command", path |-> Null, operation |-> "none",
                       command |-> command, args |-> args,
                       out |-> validate_command(command, args)]
    /\ UNCHANGED <<toolVars, emits, rtVars, voiceVars>>

\* EnhancedSecurityManager::check_file_permission(path, operation)
host_check_file_permission(path, operation) ==
    /\ policyCheck' = [op |-> "check_file_permission", path |-> path,
                       operation |-> operation, command |-> Null, args |-> <<>>,
                       out |-> check_file_permission(path, operation)]
    /\ UNCHANGED <<toolVars, emits, rtVars, voiceVars>>

(***************************************************************************)
(* Specifications.                                                         *)
(***************************************************************************)
vars == <<toolVars, hostVars, rtVars, voiceVars>>

\* No notification has been emitted and the policy engine has not been asked.
HostInit ==
    /\ emits = <<>>
    /\ policyCheck = [op |-> "none", path |-> Null, operation |-> "none", command |-> Null,
                      args |-> <<>>, out |-> Ok(Null)]

\* The tool registry and the capabilities, driven by the host.
Init == ToolsInit /\ HostInit /\ RtInit /\ VoiceInit

Spec == Init /\ [][ToolsNext]_vars

\* The realtime sessions; the host has registered the filesystem capability
\* with the manager's registry.
InitRealtime ==
    /\ fsFiles = [f \in FsInitFiles |-> "old"]
    /\ tools = [n \in ToolNames |-> IF n = "filesystem" THEN FileSystemToolA ELSE NoTool]
    /\ mcp_servers = {}
    /\ toolCall = NoCall
    /\ toolOut = NoOut
    /\ toolIo = NoIo
    /\ toolProc = NoProc
    /\ HostInit
    /\ RtInit
    /\ VoiceInit

SpecRealtime == InitRealtime /\ [][RtNext]_vars

\* The voice pipeline.
SpecVoice == Init /\ [][VoiceNext]_vars


\* The session operations within one millisecond of the clock, when a task
\* that waits for the session mapping gets it once it is free, the final
\* transcription of a stop_session returns and the synthesis of a speak_text
\* returns.
SpecVoiceFair ==
    /\ Init
    /\ [][VoiceNextNow]_vars
    /\ WF_vars(\E task \in vtasks : TaskUpdate(task))
    /\ WF_vars(\E result \in TranscribeResults : StopTranscribed(result))
    /\ WF_vars(\E ok \in BOOLEAN : SpeakSynthesized(ok))

\* The realtime sessions when the tasks are scheduled: a writer task whose
\* channel holds a message, or whose channel is closed, takes its next step,
\* and a write returns.  The inbound messages are a function call and a read
\* failure.
SpecRealtimeFair ==
    /\ InitRealtime
    /\ [][\/ \E s \in {RtOrder[1]}, o \in {"config_error", "ok"} : rt_create_session(s, o)
          \/ \E s \in {RtOrder[1]}, d \in AudioData : send_audio(s, d)
          \/ \E s \in {RtOrder[1]} : close_session(s)
          \/ \E s \in {RtOrder[1]}, ok \in BOOLEAN : WriterWrite(s, ok)
          \/ \E s \in {RtOrder[1]} : WriterRemove(s)
          \/ \E s \in {RtOrder[1]} : WriterClosed(s)
          \/ \E s \in {RtOrder[1]}, msg \in {Msg("item", <<FcRead>>, <<>>), Msg("read_error", <<>>, <<>>)} :
                ReaderRecv(s, msg)
          \/ \E s \in {RtOrder[1]} : ReaderRemove(s)
          \/ \E s \in {RtOrder[1]} : ReaderPart(s)
          \/ \E s \in {RtOrder[1]} : ReaderSendOutput(s)
          \/ \E s \in {RtOrder[1]} : ReaderSendTrigger(s)]_vars
    /\ \A s \in {RtOrder[1]} :
          /\ WF_vars(\E ok \in BOOLEAN : WriterWrite(s, ok))
          /\ WF_vars(WriterRemove(s))
          /\ WF_vars(WriterClosed(s))
          /\ WF_vars(ReaderSendTrigger(s))

\* Sessions side by side and their teardown.  The two managers share no
\* state, and the host drives one of them: either two realtime sessions with
\* their writer tasks and the read failures of their reader tasks, or the
\* voice sessions of two clock values with their transcriptions.
SpecTeardown ==
    /\ Init
    /\ [][\/ /\ vStep.op = "none" /\ clock = 1
             /\ \/ \E s \in RtIds : rt_create_session(s, "ok")
                \/ \E s \in RtIds, d \in AudioData : send_audio(s, d)
                \/ \E s \in RtIds : close_session(s)
                \/ \E s \in RtIds, ok \in BOOLEAN : WriterWrite(s, ok)
                \/ \E s \in RtIds : WriterRemove(s)
                \/ \E s \in RtIds : WriterClosed(s)
                \/ \E s \in RtIds : ReaderRecv(s, Msg("read_error", <<>>, <<>>))
                \/ \E s \in RtIds : ReaderRemove(s)
          \/ /\ rtStep.op = "none"
             /\ \/ Tick
                \/ \E c \in VoiceConfigs : c.audio_format = <<"w", "e", "b", "m">> /\ voice_create_session(c)
                \/ \E id \in VoiceIds : voice_stop_session(id)
                \/ StopTranscribed([ok |-> TRUE, text |-> <<"l", "i", "g", "h", "t", "s", " ", "o", "f", "f">>])
                \/ \E id \in VoiceIds, size \in ChunkSizes :
                      enhanced_voice_add_audio_chunk(id, size)
                \/ \E task \in vtasks :
                      TaskTranscribed(task, [ok |-> TRUE, text |-> <<"l", "i", "g", "h", "t", "s", " ", "o", "f", "f">>])]_vars

\* The policy engine, asked by the host about paths, commands and file
\* operations, over the file system as it is when the program starts.
SpecSecurity ==
    /\ Init
    /\ [][\/ \E path \in (CallPaths \ {Null})
                           \cup { <<"/", "h", "o", "m", "e", "/", "u", "/", "D", "o", "c", "u", "m", "e", "n", "t", "s", "/", ".", ".">>, <<"/", "h", "o", "m", "e", "/", "u", "/", "D", "o", "c", "u", "m", "e", "n", "t", "s", "/", ".", ".", "/", "D", "o", "c", "u", "m", "e", "n", "t", "s", "/", "d">>,
                                  <<"/", "t", "m", "p", "/", "l", "/", "n", "e", "w">>, <<"/", "t", "m", "p", "/", "a", ".", ".", "b">>, <<"a">>, <<".", ".", "/", "e", "t", "c", "/", "p", "a", "s", "s", "w", "d">>,
                                  <<"~">>, <<"~", "/", ".", "s", "s", "h", "/", "k">>, <<"/", "t", "m", "p", "/">> \o <<"NUL">> } :
               host_validate_path(path)
          \/ \E command \in { <<"l", "s">>, <<"/", "b", "i", "n", "/", "l", "s">>, <<"g", "i", "t">>, <<"/", "u", "s", "r", "/", "b", "i", "n", "/", "g", "i", "t">>, <<"r", "m">>, <<"p", "y", "t", "h", "o", "n", "3">>,
                               <<"l", "s", ";">>, <<".", ".">>, <<>> } :
               \E args \in { <<>>, << <<"s", "t", "a", "t", "u", "s">> >>, << <<"p", "u", "s", "h">> >>, << <<"s", "t", "a", "t", "u", "s">>, <<"p", "u", "s", "h">> >>,
                             << <<"-", "c">> >>, << <<"l", "o", "g">>, <<"a", ";", "b">> >>, << <<"-", "l", "a">> >> } :
                   host_validate_command(command, args)
          \/ \E path \in { <<"/", "h", "o", "m", "e", "/", "u", "/", "D", "o", "c", "u", "m", "e", "n", "t", "s", "/", "d">>, <<"/", "h", "o", "m", "e", "/", "u", "/", "D", "o", "c", "u", "m", "e", "n", "t", "s", "/", ".", "e", "n", "v">>,
                            <<"/", "h", "o", "m", "e", "/", "u", "/", "D", "e", "s", "k", "t", "o", "p", "/", "n">>, <<"/", "h", "o", "m", "e", "/", "u", "/", "D", "e", "s", "k", "t", "o", "p", "/", "x", ".", "s", "h">>,
                            <<"/", "h", "o", "m", "e", "/", "u", "/", "D", "e", "s", "k", "t", "o", "p", "/", "C", "a", "r", "g", "o", ".", "t", "o", "m", "l">>, <<"/", "h", "o", "m", "e", "/", "u", "/", "D", "o", "w", "n", "l", "o", "a", "d", "s", "/", "r", "u", "n", ".", "b", "a", "t">>,
                            <<"/", "h", "o", "m", "e", "/", "u", "/", "D", "o", "c", "u", "m", "e", "n", "t", "s", "2", "/", "n">>, <<"/", "t", "m", "p", "/", "n", "e", "w">>, <<"/", "t", "m", "p", "/", "x", ".", "s", "h">>,
                            <<"/", "t", "m", "p", "/", ".", "e", "n", "v">>, <<"/", "t", "m", "p", "/", ".", "s", "h">> } :
               \E operation \in FileOperation :
                   host_check_file_permission(path, operation)]_vars

(***************************************************************************)
(* Claims about the capabilities and the policy engine (Spec).             *)
(***************************************************************************)
\* The FileOperation a filesystem action is.
FsOperation(op) ==
    CASE op = "read" -> "Read" [] op = "write" -> "Write" [] op = "list" -> "List"

FsActionOperation(action) ==
    IF action = <<"r", "e", "a", "d">> THEN "Read" ELSE IF action = <<"w", "r", "i", "t", "e">> THEN "Write" ELSE "List"

\* The policy engine accepts the path and its permission check grants the
\* operation.
PolicyAllows(files, path, operation) ==
    LET v == validate_path(files, path) IN
    v.ok /\ check_file_permission(v.val, operation).ok

\* C1: the filesystem tool issues file I/O on a path only if validate_path
\* accepts the path and the permission check grants the operation; every
\* other read, write or list request yields success = false and no I/O.
C1_FileIoOnlyWhenPolicyAllows ==
    [][toolCall'.name = "filesystem" =>
          /\ \A io \in toolIo' : PolicyAllows(DOMAIN fsFiles, io.path, FsOperation(io.op))
          /\ (/\ toolCall'.args.action \in {<<"r", "e", "a", "d">>, <<"w", "r", "i", "t", "e">>, <<"l", "i", "s", "t">>}
              /\ toolCall'.args.path # Null
              /\ ~PolicyAllows(DOMAIN fsFiles, toolCall'.args.path,
                               FsActionOperation(toolCall'.args.action)))
             => (toolOut'.success = FALSE /\ toolIo' = NoIo)]_vars

\* validate_command permits the command line: its first word is the command,
\* the other words are its arguments.
CommandPermitted(command) ==
    LET w == split_whitespace(command) IN
    w # <<>> /\ validate_command(w[1], Tail(w)).ok

\* C2: the command-execution tool starts a process only for a command that
\* validate_command permits; for every other command it returns
\* success = false and starts no process.
C2_ProcessOnlyWhenCommandValidated ==
    /\ toolProc # NoProc => CommandPermitted(toolProc)
    /\ (toolCall.name = "terminal" /\ toolCall.args.command # Null
        /\ ~CommandPermitted(toolCall.args.command))
       => (toolOut.success = FALSE /\ toolProc = NoProc)

(***************************************************************************)
(* Claims about the realtime sessions (SpecRealtime).                      *)
(***************************************************************************)
IsOutputFrame(f) == f.type = "function_call_output"

IsExistingCall(c) == c.existing

\* C3: for each function-call part handled on an existing session a
\* function-call-output frame with its call_id and then a response-create
\* frame are enqueued, the output before the trigger, and the output frames
\* of successive calls are in the order the calls arrived.
C3_EachCallAnsweredInOrder ==
    \A s \in RtIds :
        LET outs == SelectSeq(submitted[s], IsOutputFrame)
            handled == SelectSeq(calls[s], IsExistingCall)
            q == submitted[s]
        IN
        /\ Len(outs) = Len(handled)
        /\ \A k \in 1..Len(outs) : k <= Len(handled) => outs[k].call_id = handled[k].call_id
        /\ \A i \in 1..Len(q) :
             IsOutputFrame(q[i]) =>
                \/ reader[s].pc = "trigger" /\ \A m \in (i + 1)..Len(q) : ~IsOutputFrame(q[m])
                \/ \E j \in (i + 1)..Len(q) :
                      /\ q[j] = ResponseCreate
                      /\ \A m \in (i + 1)..(j - 1) : ~IsOutputFrame(q[m])

\* C4: when a function call arrives on an existing session and the tool does
\* not succeed (unknown tool, denial, execution failure, undecodable
\* arguments), a function-call-output frame with its call_id is enqueued and
\* its output is the failure text: never an empty output, never no frame.
C4_FailedCallAnsweredWithFailureText ==
    \A s \in RtIds : \A k \in 1..Len(calls[s]) :
        (calls[s][k].existing /\ ~calls[s][k].success) =>
            \E i \in 1..Len(submitted[s]) :
                /\ IsOutputFrame(submitted[s][i])
                /\ submitted[s][i].call_id = calls[s][k].call_id
                /\ submitted[s][i].payload # <<>>

\* C5: send_audio on an existing session that is sleeping enqueues no frame
\* and returns success; so every audio-append frame was enqueued when its
\* session was not sleeping.
C5_SleepingSessionDropsAudio ==
    [][/\ (/\ rtStep'.op = "send_audio"
           /\ rtStep'.id \in DOMAIN sessions
           /\ sessions[rtStep'.id].is_sleeping)
          => (submitted' = submitted /\ chan' = chan /\ rtStep'.ret = "Ok")
       /\ \A s \in RtIds :
            (/\ Len(submitted'[s]) > Len(submitted[s])
             /\ submitted'[s][Len(submitted'[s])].type = "input_audio_buffer.append")
            => (s \in DOMAIN sessions /\ ~sessions[s].is_sleeping)]_vars

\* send_audio has just returned success on a sleeping session that had taken
\* audio before it fell asleep.
C5_Witness ==
    /\ rtStep.op = "send_audio" /\ rtStep.ret = "Ok"
    /\ rtStep.id \in DOMAIN sessions
    /\ sessions[rtStep.id].is_sleeping
    /\ \E i \in 1..Len(submitted[rtStep.id]) :
          submitted[rtStep.id][i].type = "input_audio_buffer.append"

\* C6: the frames written to a session's connection after the configuration
\* frame are, in order, the frames submitted to its outbound flow: none is
\* reordered or duplicated, whatever the interleaving of send_audio and the
\* inbound flow.
C6_WrittenInSubmissionOrder ==
    \A s \in RtIds :
        wire[s] # <<>> =>
            /\ Len(wire[s]) - 1 <= Len(submitted[s])
            /\ \A i \in 2..Len(wire[s]) : wire[s][i] = submitted[s][i - 1]

\* Two send_audio calls interleaved with the inbound flow: an audio append
\* before the function-call output, another between the output and its
\* trigger, all written.
C6_Witness ==
    \E s \in RtIds :
        /\ Len(wire[s]) = 5
        /\ wire[s][2].type = "input_audio_buffer.append"
        /\ wire[s][3].type = "function_call_output"
        /\ wire[s][4].type = "input_audio_buffer.append"
        /\ wire[s][4] # wire[s][2]
        /\ wire[s][5] = ResponseCreate

\* C7: once a read failure or a write failure on a session's connection has
\* removed the session from the mapping, the session stays absent and no
\* further frame is written for it.
C7_NoFrameAfterTransportFailure ==
    [][\A s \in RtIds :
          rtFail[s] = "removed" => (wire'[s] = wire[s] /\ s \notin DOMAIN sessions')]_vars

\* C8: when a session has left the mapping because of a transport failure,
\* an error or stopped notification for its id is emitted: at the latest
\* when both of its flows have ended.
C8_FailureRemovalNotified ==
    \A s \in RtIds :
        (rtFail[s] = "removed" /\ writer[s] = "done" /\ reader[s].pc = "done")
            => s \in rtNotified

(***************************************************************************)
(* Claims about the voice pipeline (SpecVoice).                            *)
(***************************************************************************)
\* close_session has removed the id before: it was created and is absent,
\* and no transport failure removed it.
ClosedBefore(s) ==
    s \in RtIds /\ writer[s] # "none" /\ s \notin DOMAIN sessions /\ rtFail[s] # "removed"

\* C9: stop_session (voice) or close_session (realtime) called a second time
\* on the same id returns success, leaves the session mapping unchanged and
\* produces no further transcription and no further notification.
C9_SecondStopOrCloseIsNoOp ==
    [][/\ (/\ vStep'.op = "stop_session"
           /\ mgr = MgrIdle
           /\ vStep'.id \in vstopped
           /\ vStep'.id \notin DOMAIN vsessions)
          => (/\ vStep'.ret = "Ok"
              /\ vsessions' = vsessions
              /\ vstarted' = vstarted
              /\ emits' = <<>>)
       /\ (rtStep'.op = "close_session" /\ ClosedBefore(rtStep'.id))
          => (/\ rtStep'.ret = "Ok"
              /\ sessions' = sessions
              /\ chan' = chan
              /\ emits' = <<>>)]_vars

\* C10: add_audio_chunk starts a transcription exactly when the buffer after
\* the append is at or above the threshold of the session's format (32000
\* for wav, 16000 otherwise): below it none is started and the buffer keeps
\* the chunk; at it one is started on the whole buffer and the buffer is
\* empty afterwards.
C10_DrainExactlyAtThreshold ==
    [][(vStep'.op = "add_audio_chunk" /\ vStep'.ret = "Ok") =>
          LET id == vStep'.id
              chunk == vaccepted'[Len(vaccepted')].chunk
              buf == Append(vsessions[id].audio_buffer, chunk)
              limit == IF vsessions[id].config.audio_format = <<"w", "a", "v">> THEN 32000 ELSE 16000
          IN
          IF BufLen(buf) >= limit
          THEN /\ vstarted' = Append(vstarted, Started(id, buf, FALSE))
               /\ vsessions'[id].audio_buffer = <<>>
          ELSE /\ vstarted' = vstarted
               /\ vsessions'[id].audio_buffer = buf]_vars

\* The second chunk of 8000 bytes has just brought a buffer to 16000 bytes:
\* a transcription of both chunks was started and the buffer is empty.
C10_Witness ==
    /\ vStep.op = "add_audio_chunk" /\ vStep.ret = "Ok"
    /\ vStep.id \in DOMAIN vsessions
    /\ vsessions[vStep.id].audio_buffer = <<>>
    /\ vstarted # <<>>
    /\ LET last == vstarted[Len(vstarted)] IN
       /\ last.sid = vStep.id /\ ~last.final
       /\ Len(last.audio) = 2
       /\ BufLen(last.audio) = 16000

\* The chunks add_audio_chunk has accepted for the id, in order.
RECURSIVE AcceptedBy(_, _)
AcceptedBy(acc, id) ==
    IF acc = <<>> THEN <<>>
    ELSE (IF Head(acc).sid = id THEN <<Head(acc).chunk>> ELSE <<>>) \o AcceptedBy(Tail(acc), id)

\* The buffers handed to the transcriptions of the id, concatenated in the
\* order they were drained.
RECURSIVE HandedTo(_, _)
HandedTo(st, id) ==
    IF st = <<>> THEN <<>>
    ELSE (IF Head(st).sid = id THEN Head(st).audio ELSE <<>>) \o HandedTo(Tail(st), id)

\* The buffer of the id that has not been handed to a transcription: none
\* once stop_session has taken the buffer for its final transcription.
CurrentBuffer(id) ==
    IF id \in DOMAIN vsessions /\ ~(mgr.op = "stop_session" /\ mgr.id = id)
    THEN vsessions[id].audio_buffer
    ELSE <<>>

\* C11: for each voice session the bytes accepted by add_audio_chunk since
\* the session was created, in order, are the buffers handed to
\* transcription, in drain order, followed by the current buffer: no byte
\* goes to two transcriptions, none is lost.
C11_AcceptedEqualsHandedThenBuffered ==
    \A id \in DOMAIN vsessions :
        AcceptedBy(DropFirst(vaccepted, vborn[id].acc), id)
            = HandedTo(DropFirst(vstarted, vborn[id].st), id) \o CurrentBuffer(id)

\* A session that has had a buffer drained at the threshold and holds a
\* chunk accepted after the drain.
C11_Witness ==
    \E id \in DOMAIN vsessions :
        /\ HandedTo(DropFirst(vstarted, vborn[id].st), id) # <<>>
        /\ CurrentBuffer(id) # <<>>

\* The session is in the mapping and Idle.
IdleSession(id) ==
    /\ id \in DOMAIN vsessions
    /\ ~vsessions[id].conversation_active
    /\ ~vsessions[id].wake_word_detected

\* The values of the notifications ev for the id among es, in order.
RECURSIVE Emitted(_, _, _)
Emitted(es, ev, id) ==
    IF es = <<>> THEN <<>>
    ELSE (IF Head(es).ev = ev /\ Head(es).id = id THEN <<Head(es).val>> ELSE <<>>)
         \o Emitted(Tail(es), ev, id)

\* The text that follows the first match of the phrase, the match being made
\* without regard to case.
TextAfter(text, phrase) ==
    DropFirst(text, FirstMatch(to_lowercase(text), to_lowercase(phrase)) + Len(phrase))

\* C12: when a transcript that contains the configured wake phrase (in any
\* case) is received for an Idle session, one wake-word-detected signal is
\* emitted, the session becomes ConversationActive, and a voice-command is
\* emitted whose command is the trimmed text that follows the phrase in the
\* transcript, or no command when that text is empty.
C12_WakePhraseStartsConversation ==
    [][\A task \in vtasks :
          /\ \A r \in TranscribeResults :
                (/\ TaskTranscribed(task, r)
                 /\ r.ok
                 /\ IdleSession(task.sid)
                 /\ Contains(to_lowercase(r.text),
                             to_lowercase(vsessions[task.sid].config.wake_word)))
                => /\ Len(Emitted(emits', "wake-word-detected", task.sid)) = 1
                   /\ (\E t \in vtasks' : t.n = task.n /\ t.pc = "update" /\ t.transcript = r.text)
          /\ (TaskUpdate(task) /\ task.sid \in DOMAIN vsessions)
             => /\ vsessions'[task.sid].conversation_active
                /\ LET rest == trim(TextAfter(task.transcript, task.wake_word)) IN
                   Emitted(emits', "voice-command", task.sid)
                       = IF rest = <<>> THEN <<>> ELSE <<rest>>]_vars

\* C13: a transcript without the wake phrase that is received while the
\* session is Idle emits no voice-command and no wake-word-detected signal, and
\* the session stays Idle.
C13_NoWakePhraseWhileIdleEmitsNoCommand ==
    [][\A task \in vtasks : \A r \in TranscribeResults :
          (/\ TaskTranscribed(task, r)
           /\ r.ok
           /\ IdleSession(task.sid)
           /\ ~Contains(to_lowercase(r.text),
                        to_lowercase(vsessions[task.sid].config.wake_word)))
          => /\ Emitted(emits', "voice-command", task.sid) = <<>>
             /\ Emitted(emits', "wake-word-detected", task.sid) = <<>>
             /\ task.sid \in DOMAIN vsessions'
             /\ ~vsessions'[task.sid].conversation_active
             /\ ~vsessions'[task.sid].wake_word_detected]_vars

\* C14: a transcript received while the session is ConversationActive is
\* emitted whole as a voice-command, however audio ingestion and the
\* completions of transcriptions interleave.
C14_ActiveSessionEmitsWholeTranscript ==
    [][\A task \in vtasks : \A r \in TranscribeResults :
          (/\ TaskTranscribed(task, r)
           /\ r.ok
           /\ task.sid \in DOMAIN vsessions
           /\ vsessions[task.sid].conversation_active)
          => Emitted(emits', "voice-command", task.sid) = <<r.text>>]_vars

\* A spawned task holds a transcript it has not yet surfaced.
HoldsTranscript(n) == \E task \in vtasks : task.n = n /\ task.pc = "update"

\* C15: every transcript obtained for a voice session is surfaced as a
\* voice-transcript notification. A threshold-triggered transcript is notified
\* by the step that receives it or, after the wake phrase, is kept by its task,
\* which notifies it when it ends and does end; the transcript of the final
\* flush is notified, marked final, by the step that receives it.
C15_EveryTranscriptSurfaced ==
    /\ [][/\ \A task \in vtasks : \A r \in TranscribeResults :
                (TaskTranscribed(task, r) /\ r.ok)
                => \/ Emitted(emits', "voice-transcript", task.sid) = <<r.text>>
                   \/ (\E t \in vtasks' : t.n = task.n /\ t.pc = "update" /\ t.transcript = r.text)
          /\ \A task \in vtasks :
                TaskUpdate(task)
                => Emitted(emits', "voice-transcript", task.sid) = <<task.transcript>>
          /\ \A r \in TranscribeResults :
                (StopTranscribed(r) /\ r.ok)
                => Emitted(emits', "voice-transcript-final", mgr.id) = <<r.text>>]_vars
    /\ \A n \in 1..MaxChunks : HoldsTranscript(n) ~> ~HoldsTranscript(n)

\* A task has surfaced a transcript from which it also extracted a command.
C15_Witness ==
    /\ vStep.op = "task"
    /\ Emitted(emits, "voice-command", vStep.id) # <<>>
    /\ Emitted(emits, "voice-transcript", vStep.id) # <<>>
    /\ Emitted(emits, "voice-command", vStep.id) # Emitted(emits, "voice-transcript", vStep.id)

\* C16: end_conversation on an existing session returns success with both
\* conversation flags false, whatever they were, one conversation-ended
\* notification emitted for the id, and the audio buffer as it was.
C16_EndConversationResetsToIdle ==
    [][\A id \in DOMAIN vsessions :
          voice_end_conversation(id)
          => /\ vStep'.ret = "Ok"
             /\ id \in DOMAIN vsessions'
             /\ ~vsessions'[id].conversation_active
             /\ ~vsessions'[id].wake_word_detected
             /\ Len(Emitted(emits', "conversation-ended", id)) = 1
             /\ vsessions'[id].audio_buffer = vsessions[id].audio_buffer]_vars

\* end_conversation has returned for a session that holds buffered audio and
\* whose earlier audio has been transcribed.
C16_Witness ==
    /\ vStep.op = "end_conversation"
    /\ vStep.ret = "Ok"
    /\ vStep.id \in DOMAIN vsessions
    /\ vsessions[vStep.id].audio_buffer # <<>>
    /\ HandedTo(DropFirst(vstarted, vborn[vStep.id].st), vStep.id) # <<>>
    /\ vtasks = {}

\* C17: stop_session on an existing session with a non-empty buffer starts
\* exactly one transcription, of the whole remaining buffer, and emits its
\* transcript marked final before the session-stopped notification, the
\* session being in the mapping until then; with an empty buffer it starts no
\* transcription; either way the id is absent from the mapping when
\* stop_session returns success.
C17_StopFlushesOnceThenRemoves ==
    [][/\ \A id \in DOMAIN vsessions :
             voice_stop_session(id)
             => IF vsessions[id].audio_buffer # <<>>
                THEN /\ vstarted' = Append(vstarted, Started(id, vsessions[id].audio_buffer, TRUE))
                     /\ vStep'.ret = "pending"
                     /\ id \in DOMAIN vsessions'
                     /\ emits' = <<>>
                ELSE /\ vstarted' = vstarted
                     /\ vStep'.ret = "Ok"
                     /\ id \notin DOMAIN vsessions'
       /\ \A r \in TranscribeResults :
             StopTranscribed(r)
             => /\ vstarted' = vstarted
                /\ mgr.id \in DOMAIN vsessions
                /\ vStep' = Step("stop_session", mgr.id, "Ok")
                /\ mgr.id \notin DOMAIN vsessions'
                /\ r.ok => emits' = <<Emit("voice-transcript-final", mgr.id, r.text),
                                      Emit("voice-session-stopped", mgr.id, <<>>)>>
       /\ (mgr.op = "stop_session" /\ mgr'.op = "stop_session")
             => (vstarted' = vstarted /\ mgr' = mgr)]_vars

\* stop_session has returned after the final transcription of a session whose
\* earlier audio had been drained at the threshold.
C17_Witness ==
    /\ vStep.op = "stop_session"
    /\ vStep.ret = "Ok"
    /\ vStep.id \notin DOMAIN vsessions
    /\ Emitted(emits, "voice-transcript-final", vStep.id) # <<>>
    /\ \E i \in 1..Len(vstarted) : vstarted[i].sid = vStep.id /\ ~vstarted[i].final

\* What an operation on sessions can change: the session mappings, the queued
\* and written frames, the transcriptions and the synthesis in progress.
sessionState == <<sessions, chan, wire, submitted, vsessions, vtasks, vstarted, vaccepted, mgr>>

\* C18: send_audio, add_audio_chunk, end_conversation and speak_text called
\* with an id that is not in the session mapping return the failure "Session
\* not found", change no session state, enqueue no frame, start no
\* transcription or synthesis and emit no notification.
C18_UnknownIdIsNotFoundAndNoEffect ==
    [][/\ \A s \in RtIds \ DOMAIN sessions : \A audio_data \in AudioData :
             send_audio(s, audio_data)
             => /\ rtStep'.op = "send_audio"
                /\ rtStep'.id = s
                /\ rtStep'.ret = "Err: Session not found"
                /\ UNCHANGED sessionState
                /\ emits' = <<>>
       /\ \A id \in VoiceIds \ DOMAIN vsessions :
             /\ \A size \in ChunkSizes :
                   enhanced_voice_add_audio_chunk(id, size)
                   => /\ vStep'.op = "add_audio_chunk"
                      /\ vStep'.id = id
                      /\ vStep'.ret = "Err: Session not found"
                      /\ UNCHANGED sessionState
                      /\ emits' = <<>>
             /\ voice_end_conversation(id)
                => /\ vStep'.op = "end_conversation"
                   /\ vStep'.id = id
                   /\ vStep'.ret = "Err: Session not found"
                   /\ UNCHANGED sessionState
                   /\ emits' = <<>>
             /\ voice_speak_text(id)
                => /\ vStep'.op = "speak_text"
                   /\ vStep'.id = id
                   /\ vStep'.ret = "Err: Session not found"
                   /\ UNCHANGED sessionState
                   /\ emits' = <<>>]_vars

\* send_audio and speak_text have both failed on unknown ids while a voice
\* session with buffered audio and a running transcription exists.
C18_Witness ==
    /\ rtStep.op = "send_audio" /\ rtStep.ret = "Err: Session not found"
    /\ vStep.op = "speak_text"
    /\ vStep.ret = "Err: Session not found"
    /\ vtasks # {}
    /\ \E id \in DOMAIN vsessions : vsessions[id].audio_buffer # <<>>
    /\ emits = <<>>

\* C19: wake_up called with an id that is not in the session mapping reports
\* the failure "Session not found", not success.
C19_WakeUpUnknownIdIsNotFound ==
    [][\A s \in RtIds \ DOMAIN sessions :
          wake_up(s) => rtStep'.ret = "Err: Session not found"]_vars

\* C20: register puts the capability under its name, replacing the one held
\* there and leaving every other name as it was, and nothing else changes the
\* registry, so each name holds the capability most recently registered under
\* it, in whatever order other names were registered; execute(name, args) fails
\* with "Tool not found" exactly when the name holds no capability, and
\* otherwise returns the result of the capability the name holds.
C20_ExecuteDispatchesByName ==
    [][/\ \A inst \in ToolInstances :
             register(inst)
             => /\ tools'[inst.kind] = inst
                /\ \A n \in ToolNames \ {inst.kind} : tools'[n] = tools[n]
       /\ (\A inst \in ToolInstances : ~register(inst)) => tools' = tools
       /\ \A call \in RegistryCalls :
             \A outcome \in (IF call.name = "terminal" THEN ProcOutcomes ELSE {"exit_ok"}) :
                execute(call, outcome)
                => IF call.name \notin ToolNames \/ tools[call.name] = NoTool
                   THEN /\ toolOut' = ToolErr("Tool not found")
                        /\ fsFiles' = fsFiles
                        /\ toolIo' = NoIo
                        /\ toolProc' = NoProc
                   ELSE /\ toolOut' # ToolErr("Tool not found")
                        /\ toolOut' = Tool_execute(tools[call.name], call.args, fsFiles,
                                                   mcp_servers, outcome).out]_vars

\* A read under the home directory has been refused by the filesystem
\* capability registered last, which allows less than the one it replaced,
\* while other names hold capabilities too.
C20_Witness ==
    /\ tools["filesystem"] = FileSystemToolB
    /\ tools["terminal"] # NoTool
    /\ tools["mcp"] # NoTool
    /\ toolCall.name = "filesystem"
    /\ toolCall.args.action = <<"r", "e", "a", "d">>
    /\ toolCall.args.path = <<"/", "h", "o", "m", "e", "/", "u", "/", "D", "o", "c", "u", "m", "e", "n", "t", "s", "/", "d">>
    /\ toolOut.kind = "Ok"
    /\ ~toolOut.success

\* C21: ToolRegistry.execute on a name that holds a capability never ends in
\* a hard failure: whatever goes wrong inside the capability comes back as a
\* ToolResult with success false and an error text.
C21_CapabilityFailureIsToolResult ==
    [][\A call \in RegistryCalls :
          \A outcome \in (IF call.name = "terminal" THEN ProcOutcomes ELSE {"exit_ok"}) :
             (/\ execute(call, outcome)
              /\ call.name \in ToolNames
              /\ tools[call.name] # NoTool)
             => /\ toolOut'.kind # "Err"
                /\ (toolOut'.kind = "Ok" /\ ~toolOut'.success) => toolOut'.error # "none"]_vars

\* The text has a ".." segment with a separator next to it.
HasParentSegment(s) ==
    \E i \in 1..(Len(s) - 1) :
        /\ s[i] = "." /\ s[i + 1] = "."
        /\ i = 1 \/ s[i - 1] \in {"/", "\\"}
        /\ i + 1 = Len(s) \/ s[i + 2] \in {"/", "\\"}
        /\ i > 1 \/ i + 1 < Len(s)

\* C22: validate_path denies every path that contains a ".." segment next to
\* a separator.
C22_TraversalPatternDenied ==
    (policyCheck.op = "validate_path" /\ HasParentSegment(policyCheck.path))
        => ~policyCheck.out.ok

\* The absolute path a candidate path stands for: "~" is the home directory
\* and a relative path starts at the working directory.
Denoted(path) ==
    IF path = <<"~">> THEN home_dir
    ELSE IF StartsWith(path, <<"~", "/">>) THEN home_dir \o DropFirst(path, 1)
    ELSE IF IsAbsolute(path) THEN path
    ELSE PathJoin(current_dir, path)

UnderAllowedRoot(p) == \E root \in {home_dir, <<"/", "t", "m", "p">>, <<"/", "v", "a", "r", "/", "t", "m", "p">>} : PathStartsWith(p, root)

HasBlockedSubstring(p) ==
    \E blocked \in { <<"/", ".", "s", "s", "h">>, <<"/", ".", "g", "n", "u", "p", "g">>, <<"/", ".", "a", "w", "s">>, <<"/", ".", "c", "o", "n", "f", "i", "g", "/", "g", "c", "l", "o", "u", "d">>,
                     <<"/", "L", "i", "b", "r", "a", "r", "y", "/", "K", "e", "y", "c", "h", "a", "i", "n", "s">>, <<"/", ".", "l", "o", "c", "a", "l", "b", "r", "a", "i", "n", "_", "k", "e", "y">> } : Contains(p, blocked)

\* The path is what the file system resolves it to: itself when it exists,
\* else a name in a directory that resolves to itself.
IsCanonical(files, p) ==
    \/ canonicalize(files, p).ok /\ canonicalize(files, p).val = p
    \/ /\ ~canonicalize(files, p).ok
       /\ parent(p) # Null
       /\ canonicalize(files, parent(p)).ok
       /\ canonicalize(files, parent(p)).val = parent(p)
       /\ file_name(p) # Null
       /\ p = (IF parent(p) = <<"/">> THEN <<>> ELSE parent(p)) \o <<"/">> \o file_name(p)

\* C23: validate_path succeeds, with the canonical absolute path, on every
\* path that canonicalizes under an allowed root and holds no blocked
\* substring; and every path it returns is canonical, absolute, under an
\* allowed root and without a blocked substring.
C23_ValidatePathSoundAndComplete ==
    policyCheck.op = "validate_path"
    => LET files == DOMAIN fsFiles
           c == canonicalize(files, Denoted(policyCheck.path))
           out == policyCheck.out
       IN
       /\ (c.ok /\ UnderAllowedRoot(c.val) /\ ~HasBlockedSubstring(c.val))
          => (out.ok /\ out.val = c.val)
       /\ out.ok => /\ IsAbsolute(out.val)
                    /\ IsCanonical(files, out.val)
                    /\ UnderAllowedRoot(out.val)
                    /\ ~HasBlockedSubstring(out.val)

ShellMetaChars == {";", "&", "|", "BQ", "$", "<", ">"}

HasShellMetaChar(s) == \E i \in 1..Len(s) : s[i] \in ShellMetaChars

\* The base name of a command: what follows its last "/".
BaseName(command) == DropFirst(command, LastIndexOf(command, "/"))

\* C24: validate_command permits a command only if its base name has a
\* whitelist entry, its first argument is in the entry's allow-list when the
\* entry has one, and no argument is blocked for it or holds a shell
\* metacharacter; `git push` is denied and `git status` is permitted.
C24_CommandPermittedOnlyByPolicy ==
    policyCheck.op = "validate_command"
    => LET base == BaseName(policyCheck.command)
           args == policyCheck.args
       IN
       /\ policyCheck.out.ok
          => /\ base \in { <<"l", "s">>, <<"c", "a", "t">>, <<"g", "r", "e", "p">>, <<"g", "i", "t">>, <<"p", "y", "t", "h", "o", "n", "3">>, <<"n", "o", "d", "e">> }
             /\ (base = <<"g", "i", "t">> /\ args # <<>>)
                => args[1] \in { <<"s", "t", "a", "t", "u", "s">>, <<"l", "o", "g">>, <<"d", "i", "f", "f">>, <<"b", "r", "a", "n", "c", "h">>, <<"s", "h", "o", "w">> }
             /\ \A i \in 1..Len(args) :
                   /\ ~HasShellMetaChar(args[i])
                   /\ base = <<"g", "i", "t">> => args[i] \notin { <<"p", "u", "s", "h">>, <<"c", "r", "e", "d", "e", "n", "t", "i", "a", "l">>, <<"c", "o", "n", "f", "i", "g">> }
                   /\ base = <<"p", "y", "t", "h", "o", "n", "3">> => args[i] \notin { <<"-", "c">>, <<"-", "-", "c", "o", "m", "m", "a", "n", "d">> }
                   /\ base = <<"n", "o", "d", "e">> => args[i] \notin { <<"-", "e">>, <<"-", "-", "e", "v", "a", "l">>, <<"-", "p">>, <<"-", "-", "p", "r", "i", "n", "t">> }
       /\ (policyCheck.command = <<"g", "i", "t">> /\ args = << <<"p", "u", "s", "h">> >>) => ~policyCheck.out.ok
       /\ (policyCheck.command = <<"g", "i", "t">> /\ args = << <<"s", "t", "a", "t", "u", "s">> >>) => policyCheck.out.ok

\* `git status` given with the directory of the program has been permitted:
\* the prefix is stripped, git has an entry and status is in its allow-list.
C24_Witness ==
    /\ policyCheck.op = "validate_command"
    /\ policyCheck.command = <<"/", "u", "s", "r", "/", "b", "i", "n", "/", "g", "i", "t">>
    /\ policyCheck.args = << <<"s", "t", "a", "t", "u", "s">> >>
    /\ policyCheck.out.ok

\* The permission entries whose directory holds the path, and among them the
\* most specific one (the longest directory).
MatchingEntries(path) == {d \in PermissionPaths : PathStartsWith(path, d)}

MostSpecificEntry(path) ==
    CHOOSE d \in MatchingEntries(path) : \A e \in MatchingEntries(path) : Len(e) <= Len(d)

EntryGrants(path, operation) ==
    IF MatchingEntries(path) = {} THEN PermissionGrants(DefaultPathPermissions, operation)
    ELSE PermissionGrants(path_permissions(MostSpecificEntry(path)), operation)

\* The fixed denials of script extensions and protected file names.
HardDenied(path, operation) ==
    \/ operation = "Execute" /\ extension(path) \in blocked_extensions
    \/ operation \in {"Write", "Delete"} /\ file_name(path) \in protected_files

\* C25: apart from the fixed denials, the permission check grants an
\* operation exactly when the most specific matching entry grants it, and by
\* the defaults (read and list granted, write, execute and delete denied)
\* when no entry matches.
C25_MostSpecificEntryOrDefaults ==
    (policyCheck.op = "check_file_permission"
     /\ ~HardDenied(policyCheck.path, policyCheck.operation))
    => (policyCheck.out.ok <=> EntryGrants(policyCheck.path, policyCheck.operation))

\* C26: whatever the entries grant, Execute is denied on a file with a script
\* extension (sh, bash, zsh, fish, ps1, bat, cmd), and Write and Delete are
\* denied on a file with a protected name (.gitignore, .env, package.json,
\* Cargo.toml, yarn.lock, package-lock.json, Cargo.lock).
C26_ScriptsAndProtectedFilesDenied ==
    policyCheck.op = "check_file_permission"
    => LET name == BaseName(policyCheck.path)
           k == LastIndexOf(name, ".")
           ext == IF k <= 1 THEN <<>> ELSE DropFirst(name, k)
       IN
       /\ (/\ policyCheck.operation = "Execute"
           /\ ext \in { <<"s", "h">>, <<"b", "a", "s", "h">>, <<"z", "s", "h">>, <<"f", "i", "s", "h">>, <<"p", "s", "1">>, <<"b", "a", "t">>, <<"c", "m", "d">> })
          => ~policyCheck.out.ok
       /\ (/\ policyCheck.operation \in {"Write", "Delete"}
           /\ name \in { <<".", "g", "i", "t", "i", "g", "n", "o", "r", "e">>, <<".", "e", "n", "v">>, <<"p", "a", "c", "k", "a", "g", "e", ".", "j", "s", "o", "n">>, <<"C", "a", "r", "g", "o", ".", "t", "o", "m", "l">>, <<"y", "a", "r", "n", ".", "l", "o", "c", "k">>,
                         <<"p", "a", "c", "k", "a", "g", "e", "-", "l", "o", "c", "k", ".", "j", "s", "o", "n">>, <<"C", "a", "r", "g", "o", ".", "l", "o", "c", "k">> })
          => ~policyCheck.out.ok

\* A protected file in a directory whose entry grants writing has been
\* refused for Write.
C26_Witness ==
    /\ policyCheck.op = "check_file_permission"
    /\ policyCheck.path = <<"/", "h", "o", "m", "e", "/", "u", "/", "D", "e", "s", "k", "t", "o", "p", "/", "C", "a", "r", "g", "o", ".", "t", "o", "m", "l">>
    /\ policyCheck.operation = "Write"
    /\ PermissionGrants(path_permissions(desktop_dir), "Write")
    /\ ~policyCheck.out.ok

\* The text holds the sleep phrase, each letter in either case.
SaysGoToSleep(delta) ==
    LET lower == <<"g", "o", " ", "t", "o", " ", "s", "l", "e", "e", "p">>
        upper == <<"G", "O", " ", "T", "O", " ", "S", "L", "E", "E", "P">>
    IN \E i \in 1..(Len(delta) - Len(lower) + 1) :
          \A k \in 1..Len(lower) : delta[i + k - 1] \in {lower[k], upper[k]}

\* C27: is_sleeping is false when the session is created; it becomes true
\* exactly when a transcript delta that holds `go to sleep` in any case is
\* handled for the session, becomes false exactly on wake_up, and no other
\* step changes it.
C27_SleepFlagOnlyByPhraseOrWake ==
    [][\A s \in RtIds :
          /\ (s \notin DOMAIN sessions /\ s \in DOMAIN sessions') => ~sessions'[s].is_sleeping
          /\ (s \in DOMAIN sessions /\ s \in DOMAIN sessions')
             => /\ (~sessions[s].is_sleeping /\ sessions'[s].is_sleeping)
                   => \E msg \in InboundMessages :
                         /\ msg.kind = "transcript" /\ SaysGoToSleep(msg.delta)
                         /\ ReaderRecv(s, msg)
                /\ (sessions[s].is_sleeping /\ ~sessions'[s].is_sleeping) => wake_up(s)
                /\ \A msg \in InboundMessages :
                      (msg.kind = "transcript" /\ SaysGoToSleep(msg.delta) /\ ReaderRecv(s, msg))
                      => sessions'[s].is_sleeping
                /\ wake_up(s) => ~sessions'[s].is_sleeping]_vars

\* The delta "Go To Sleep" has just been handled for a session that was
\* awake: the flag is set and the host has been told.
C27_Witness ==
    \E s \in DOMAIN sessions :
        /\ sessions[s].is_sleeping
        /\ rtStep = Step("reader", s, "-")
        /\ emits = <<Emit("realtime-transcript", s, <<"G", "o", " ", "T", "o", " ", "S", "l", "e", "e", "p">>),
                     Emit("realtime-sleeping", s, <<"t", "r", "u", "e">>)>>

\* C28: handling an error event, an undecodable frame or an event of an
\* unknown type removes no session, changes no session flag and queues no
\* outbound frame, and the reader goes on reading; the error event is
\* surfaced to the host as realtime-error, the other two surface nothing.
C28_ErrorAndUnknownFramesLeaveSession ==
    [][\A s \in RtIds : \A msg \in InboundMessages :
          (msg.kind \in {"error", "undecodable", "other_event"} /\ ReaderRecv(s, msg))
          => /\ sessions' = sessions
             /\ chan' = chan /\ submitted' = submitted /\ wire' = wire
             /\ reader'[s].pc = "next"
             /\ IF msg.kind = "error"
                THEN /\ Len(emits') = 1
                     /\ emits'[1].ev = "realtime-error" /\ emits'[1].id = s
                ELSE emits' = <<>>]_vars

\* An error event has just been handled for a session that is still in the
\* mapping and whose reader waits for the next message.
C28_Witness ==
    \E s \in DOMAIN sessions :
        /\ rtStep = Step("reader", s, "-")
        /\ Len(emits) = 1 /\ emits[1].ev = "realtime-error" /\ emits[1].id = s
        /\ reader[s].pc = "next"

\* C30: the configuration frame is the first frame written on a session's
\* connection and the only one of its kind; an id is in the mapping, or has
\* a writer or reader task, only when that frame has been written; and a
\* create_session whose handshake or configuration send fails returns an
\* error and leaves no entry, no writer task, no reader task and no frame.
C30_ConfigurationFrameFirstAndOnce ==
    [][\A s \in RtIds :
          /\ wire'[s] # <<>>
             => /\ wire'[s][1].type = "session.update"
                /\ \A i \in 2..Len(wire'[s]) : wire'[s][i].type # "session.update"
          /\ (s \in DOMAIN sessions' \/ writer'[s] # "none" \/ reader'[s].pc # "none")
             => wire'[s] # <<>>
          /\ \A outcome \in {"connect_error", "config_error"} :
                rt_create_session(s, outcome)
                => /\ rtStep'.op = "create_session" /\ rtStep'.ret = "Err"
                   /\ s \notin DOMAIN sessions'
                   /\ writer'[s] = "none" /\ reader'[s].pc = "none"
                   /\ wire'[s] = <<>>
          /\ rt_create_session(s, "ok")
             => /\ rtStep'.ret = "Ok" /\ s \in DOMAIN sessions'
                /\ Len(wire'[s]) = 1]_vars

\* A session is in the mapping and frames have been written after its
\* configuration frame.
C30_Witness ==
    \E s \in DOMAIN sessions :
        /\ Len(wire[s]) >= 2
        /\ wire[s][1].type = "session.update"
        /\ wire[s][2].type = "input_audio_buffer.append"

\* C29: every execution of the command tool ends: once it has started a
\* process it has returned a ToolResult, the process being terminated by
\* force when it outlives the maximum execution time of its command.  (A
\* call is pending only for a process that does not exit by itself, and
\* nothing in the model completes a pending call.)
C29_CommandExecutionTerminates ==
    (toolCall.name = "terminal" /\ toolProc # NoProc) => toolOut.kind = "Ok"

\* A transcription of audio of session a has started and has not returned:
\* one of a spawned task, or the final one of stop_session.
TranscriptionInProgress(a) ==
    \/ \E task \in vtasks : task.sid = a /\ task.pc = "transcribe"
    \/ mgr.op = "stop_session" /\ mgr.id = a

\* C31: while a transcription for session a is in progress, started by the
\* threshold or by the final flush of stop_session, add_audio_chunk on
\* another session b that is active does not wait: it can run at once.
C31_SlowTranscriptionBlocksNoOtherSession ==
    \A a \in VoiceIds : \A b \in DOMAIN vsessions :
        (/\ a # b
         /\ TranscriptionInProgress(a)
         /\ mgr.op # "speak_text"
         /\ vsessions[b].is_active
         /\ Len(vaccepted) < MaxChunks)
        => ENABLED enhanced_voice_add_audio_chunk(b, 8000)

\* C32: when close_session has returned the entry is absent; from then on
\* nothing more is submitted to the session's channel, what is written stays
\* the configuration frame followed by a prefix, in order, of what had been
\* submitted, and the writer task ends.
C32_CloseEndsWriterAfterQueuedFrames ==
    /\ [][\A s \in RtIds :
            /\ close_session(s) => s \notin DOMAIN sessions'
            /\ (s \notin DOMAIN sessions /\ writer[s] # "none")
               => /\ submitted'[s] = submitted[s]
                  /\ s \notin DOMAIN sessions'
            /\ wire'[s] # <<>>
               => /\ Len(wire'[s]) - 1 <= Len(submitted'[s])
                  /\ \A i \in 2..Len(wire'[s]) : wire'[s][i] = submitted'[s][i - 1]]_vars
    /\ \A s \in RtIds :
          (rtStep = Step("close_session", s, "Ok") /\ writer[s] = "recv")
          ~> (writer[s] = "done")

\* close_session has removed a session whose channel still held a frame, and
\* the writer task has written that frame and ended.
C32_Witness ==
    \E s \in RtIds :
        /\ s \notin DOMAIN sessions
        /\ writer[s] = "done"
        /\ rtFail[s] = "none"
        /\ Len(wire[s]) >= 2
        /\ wire[s][Len(wire[s])] = submitted[s][Len(submitted[s])]

\* What there is of realtime session b: its entry with its flags, its
\* channel, what was written for it, and where its two tasks are.
RtSessionOf(b) ==
    [entry |-> IF b \in DOMAIN sessions THEN <<sessions[b]>> ELSE <<>>,
     chan |-> chan[b], wire |-> wire[b], writer |-> writer[b], reader |-> reader[b]]

\* What there is of voice session b: its entry with its flags and its audio
\* buffer, and its transcription tasks.
VoiceSessionOf(b) ==
    [entry |-> IF b \in DOMAIN vsessions THEN <<vsessions[b]>> ELSE <<>>,
     tasks |-> {task \in vtasks : task.sid = b}]

\* C33: tearing down one session, by close_session, by a failed write or
\* read of its connection, or by stop_session, leaves every other session as
\* it was: entry, flags, audio buffer, outbound queue and running tasks.
C33_TeardownLeavesOtherSessions ==
    [][/\ \A a \in RtIds : \A b \in RtIds \ {a} :
             (close_session(a) \/ WriterRemove(a) \/ ReaderRemove(a))
             => RtSessionOf(b)' = RtSessionOf(b)
       /\ \A a \in VoiceIds : \A b \in VoiceIds \ {a} :
             (\/ voice_stop_session(a)
              \/ mgr.id = a /\ \E result \in TranscribeResults : StopTranscribed(result))
             => VoiceSessionOf(b)' = VoiceSessionOf(b)]_vars

\* close_session has removed the first realtime session while the second is
\* in the mapping with a frame in its channel.
C33_Witness ==
    /\ rtStep = Step("close_session", RtOrder[1], "Ok")
    /\ RtOrder[1] \notin DOMAIN sessions
    /\ RtOrder[2] \in DOMAIN sessions
    /\ chan[RtOrder[2]] # <<>>

\* C34: once a realtime session that was created is no longer in the
\* mapping, its inbound flow dispatches nothing more for it: no step executes
\* a tool for it and no step emits a notification that names its id.
C34_NoDispatchAfterRemoval ==
    [][\A s \in RtIds :
          (s \notin DOMAIN sessions /\ reader[s].pc # "none")
          => /\ ~(reader[s].pc = "part" /\ reader'[s].pc = "send")
             /\ \A i \in 1..Len(emits') : emits'[i].id # s]_vars

\* C35: create_session never returns an id that is in the session mapping
\* already: no entry that exists is replaced, also when sessions are created
\* within the same millisecond of the clock.
C35_CreatedIdIsFresh ==
    [][/\ \A config \in VoiceConfigs :
             voice_create_session(config)
             => /\ vStep'.id \notin DOMAIN vsessions
                /\ \A id \in DOMAIN vsessions : vsessions'[id] = vsessions[id]
       /\ \A s \in RtIds :
             rt_create_session(s, "ok") => s \notin DOMAIN sessions]_vars

\* The notifications of es that carry a transcript or a command of session sid.
SpeechEmits(es, sid) ==
    {i \in 1..Len(es) : es[i].id = sid /\ es[i].ev \in {"voice-transcript", "voice-command"}}

\* C36: the voice-transcript and voice-command notifications of one session
\* come in the order in which the audio was drained: when a transcription
\* task emits them, no task of the session that was drained earlier still
\* holds a transcript it has yet to emit.
C36_NotificationsInDrainOrder ==
    [][\A task \in vtasks :
          (task \notin vtasks' /\ SpeechEmits(emits', task.sid) # {})
          => \A earlier \in vtasks' :
                ~(earlier.sid = task.sid /\ earlier.n < task.n /\ earlier.pc = "update")]_vars

\* C37: once stop_session has removed a voice session and emitted
\* voice-session-stopped for its id, no wake-word-detected, voice-command or
\* voice-transcript is emitted for that id (as long as no new session has
\* the id), even by a transcription that was started before the stop.
C37_NothingEmittedAfterStopped ==
    [][\A id \in vstopped :
          id \notin DOMAIN vsessions
          => \A i \in 1..Len(emits') :
                ~(/\ emits'[i].id = id
                  /\ emits'[i].ev \in {"wake-word-detected", "voice-command",
                                       "voice-transcript"})]_vars

\* C38: a transcript that does not hold the wake phrase is emitted as a
\* voice-command only if the session is in the mapping with
\* conversation_active set at the moment it is emitted; after
\* end_conversation no such transcript is emitted as a command until the
\* wake phrase is detected again.
C38_CommandOnlyWhileConversationActive ==
    [][\A task \in vtasks : \A result \in TranscribeResults :
          (/\ result.ok
           /\ ~Contains(to_lowercase(result.text), to_lowercase(task.wake_word))
           /\ TaskTranscribed(task, result)
           /\ \E i \in 1..Len(emits') :
                 emits'[i].ev = "voice-command" /\ emits'[i].id = task.sid)
          => /\ task.sid \in DOMAIN vsessions
             /\ vsessions[task.sid].conversation_active]_vars

\* C39: in every state every voice session has wake_word_detected equal to
\* conversation_active: both false from creation, set together on the wake
\* phrase, cleared together by end_conversation.
C39_WakeDetectedEqualsConversationActive ==
    \A id \in DOMAIN vsessions :
        vsessions[id].wake_word_detected = vsessions[id].conversation_active

\* A transcription task has just set both flags of a session that is in the
\* mapping.
C39_Witness ==
    \E id \in DOMAIN vsessions :
        /\ vsessions[id].wake_word_detected
        /\ vsessions[id].conversation_active
        /\ vStep = Step("task", id, "-")

\* C40: no interleaving of the session operations and the transcription
\* tasks deadlocks on the manager's mutex, the lock of the session mapping
\* and the session locks: provided the awaited transcription and synthesis
\* calls return, a command that holds the mutex comes to its end and gives
\* it back, and a task that waits for the session mapping gets it and ends.
C40_NoDeadlockOnSessionLocks ==
    /\ (mgr # MgrIdle) ~> (mgr = MgrIdle)
    /\ \A n \in 1..MaxChunks :
          (\E task \in vtasks : task.n = n /\ task.pc = "update")
          ~> ~(\E task \in vtasks : task.n = n /\ task.pc = "update")

\* A transcription task waits for the session mapping while stop_session
\* holds its write guard across the final transcription.
C40_Witness ==
    /\ mgr.op = "stop_session"
    /\ \E task \in vtasks : task.pc = "update" /\ task.sid = mgr.id

====
